---------------------------- MODULE Spec2Model ----------------------------
(***************************************************************************)
(* A model of the chess rules engine of src/src/board.py: the Board        *)
(* object (piece array, active player, en passant target, castling rights, *)
(* the two counters), its legality engine and make_move.                   *)
(*                                                                         *)
(* A Square is modelled by its linear index _square (0..63); _file, _rank  *)
(* and _square_name are derived from it as the constructor derives them.   *)
(* Python's None is the string "None" for Optional[str] fields and         *)
(* NoSquare for an Optional[Square].                                       *)
(***************************************************************************)
EXTENDS Integers, Sequences, FiniteSets, TLC

\* ------------------------------------------------------------------ bounds
\* Number of make_move calls explored from a starting position.
MaxPly == 2

\* --------------------------------------------------------------- constants
None == "None"
NoSquare == 64

WHITE == "WHITE"
BLACK == "BLACK"

CASTLINGS == <<"0-0", "0-0-0">>
PIECES == <<"R", "N", "B", "Q", "K">>
FILES == <<"a", "b", "c", "d", "e", "f", "g", "h">>
RANKS == <<"1", "2", "3", "4", "5", "6", "7", "8">>

Range(seq) == {seq[i] : i \in 1..Len(seq)}

\* list.index(x), 0-based
IndexOf(seq, x) == (CHOOSE i \in 1..Len(seq) : seq[i] = x) - 1

Squares == 0..63

\* Square.SQUARE_NAMES: rank-major, file letter then rank digit
SQUARE_NAMES ==
  << "a1","b1","c1","d1","e1","f1","g1","h1",
     "a2","b2","c2","d2","e2","f2","g2","h2",
     "a3","b3","c3","d3","e3","f3","g3","h3",
     "a4","b4","c4","d4","e4","f4","g4","h4",
     "a5","b5","c5","d5","e5","f5","g5","h5",
     "a6","b6","c6","d6","e6","f6","g6","h6",
     "a7","b7","c7","d7","e7","f7","g7","h7",
     "a8","b8","c8","d8","e8","f8","g8","h8" >>

SquareNameSet == Range(SQUARE_NAMES)

\* str.upper / str.lower / str.isupper / str.islower on the one-character
\* strings the program applies them to (piece letters and file letters)
LowerChars == <<"a","b","c","d","e","f","g","h","k","n","p","q","r">>
UpperChars == <<"A","B","C","D","E","F","G","H","K","N","P","Q","R">>

isupper(c) == c \in Range(UpperChars)
islower(c) == c \in Range(LowerChars)
upper(c) == IF islower(c) THEN UpperChars[IndexOf(LowerChars, c) + 1] ELSE c
lower(c) == IF isupper(c) THEN LowerChars[IndexOf(UpperChars, c) + 1] ELSE c

format_piece(piece, player) ==
  IF player = WHITE THEN upper(piece) ELSE lower(piece)

get_piece_owner(piece) ==
  IF isupper(piece) THEN WHITE
  ELSE IF islower(piece) THEN BLACK
  ELSE None

get_opponent(player) == IF player = WHITE THEN BLACK ELSE WHITE

\* ------------------------------------------------------------------ Square
valid_square(f, r) == f \in 0..(Len(FILES) - 1) /\ r \in 0..(Len(RANKS) - 1)

file(s) == s % 8
rank(s) == s \div 8

\* Square(file, rank)
SquareFR(f, r) == r * 8 + f

\* Square(square_name) for a valid name
SquareByName == [n \in SquareNameSet |-> IndexOf(SQUARE_NAMES, n)]
Square(name) == SquareByName[name]

square_name(s) == SQUARE_NAMES[s + 1]

\* Square.__add__: the square at offset (df, dr), or None off the board
SquareAdd(s, dv) ==
  IF valid_square(file(s) + dv[1], rank(s) + dv[2])
  THEN SquareFR(file(s) + dv[1], rank(s) + dv[2])
  ELSE NoSquare

\* Square.__sub__: a Square built from the coordinate differences, or None
SquareSub(s, dv) ==
  IF valid_square(file(s) - dv[1], rank(s) - dv[2])
  THEN SquareFR(file(s) - dv[1], rank(s) - dv[2])
  ELSE NoSquare

Abs(x) == IF x < 0 THEN -x ELSE x
Max(a, b) == IF a >= b THEN a ELSE b
Min(a, b) == IF a <= b THEN a ELSE b

\* Square.dist: L_oo distance
dist(a, b) == Max(Abs(file(a) - file(b)), Abs(rank(a) - rank(b)))

\* Python values that meet in one comparison: a Square, a tuple or None
PySquare(s) == IF s = NoSquare THEN [type |-> "NoneType", sq |-> NoSquare, tup |-> <<>>]
               ELSE [type |-> "Square", sq |-> s, tup |-> <<>>]
PyTuple(t) == [type |-> "tuple", sq |-> NoSquare, tup |-> t]

\* x == y as Python evaluates it: Square.__eq__ answers False for a
\* non-Square operand, tuples compare by content, None equals only None
PyEq(x, y) ==
  IF x.type = "Square" \/ y.type = "Square"
  THEN x.type = "Square" /\ y.type = "Square" /\ x.sq = y.sq
  ELSE x.type = y.type /\ x.tup = y.tup

\* x in list
PyIn(x, list) == \E i \in 1..Len(list) : PyEq(x, list[i])

KNIGHT_MOVES == << <<-2,-1>>, <<-2,1>>, <<-1,2>>, <<1,2>>, <<2,1>>, <<2,-1>>, <<1,-2>>, <<-1,-2>> >>
LATERAL_MOVES == << <<-1,0>>, <<0,-1>>, <<0,1>>, <<1,0>> >>
DIAGONAL_MOVES == << <<-1,-1>>, <<-1,1>>, <<1,-1>>, <<1,1>> >>
KING_MOVES == LATERAL_MOVES \o DIAGONAL_MOVES

PUSH_DIRECTION(player) == IF player = WHITE THEN 1 ELSE -1
PAWN_RANK(player) == IF player = WHITE THEN 1 ELSE 6
BACK_RANK(player) == IF player = WHITE THEN 0 ELSE 7

\* CASTLING_END_SQUARES[player][castling] = (king end square, rook end square)
CASTLING_END_SQUARES(player, castling) ==
  IF player = WHITE
  THEN (IF castling = "0-0" THEN <<"g1", "f1">> ELSE <<"c1", "d1">>)
  ELSE (IF castling = "0-0" THEN <<"g8", "f8">> ELSE <<"c8", "d8">>)


\* ------------------------------------------------------------------- Move
\* The Move dataclass; every field is a string or None
Move(castling, capture, piece, src, dest, promotion) ==
  [castling |-> castling, capture |-> capture, piece |-> piece,
   src |-> src, dest |-> dest, promotion |-> promotion]

\* Move(castling=c)
CastlingMove(c) == Move(c, None, None, None, None, None)

\* x or default, for an Optional[str]
Or(x, default) == IF x = None THEN default ELSE x

\* ------------------------------------------------------------- parse_move
\* A notation is the sequence of its characters.  The two patterns of
\* parse_move share match_common: an optional source (file, rank or
\* square), an optional "x", a destination square, up to the end.  Every
\* part has a fixed length, so the match is found from the end backwards.
chars(name) == <<FILES[file(Square(name)) + 1], RANKS[rank(Square(name)) + 1]>>

\* the square name two characters spell
name_of(f, r) == square_name(SquareFR(IndexOf(FILES, f), IndexOf(RANKS, r)))

\* the characters before the destination, less the capture mark
src_chars(cs) ==
  IF Len(cs) >= 3 /\ cs[Len(cs) - 2] = "x"
  THEN SubSeq(cs, 1, Len(cs) - 3)
  ELSE SubSeq(cs, 1, Len(cs) - 2)

\* match_common matches the whole of cs
match_common(cs) ==
  /\ Len(cs) >= 2
  /\ cs[Len(cs) - 1] \in Range(FILES)
  /\ cs[Len(cs)] \in Range(RANKS)
  /\ \/ src_chars(cs) = <<>>
     \/ Len(src_chars(cs)) = 1 /\ src_chars(cs)[1] \in Range(FILES) \cup Range(RANKS)
     \/ /\ Len(src_chars(cs)) = 2
        /\ src_chars(cs)[1] \in Range(FILES)
        /\ src_chars(cs)[2] \in Range(RANKS)

\* the groups src, capture and dest of a match of match_common, with the
\* piece and the promotion the pattern around it found
common_groups(cs, piece, promotion) ==
  Move(None,
       IF Len(cs) >= 3 /\ cs[Len(cs) - 2] = "x" THEN "x" ELSE None,
       piece,
       IF src_chars(cs) = <<>> THEN None
       ELSE IF Len(src_chars(cs)) = 1 THEN src_chars(cs)[1]
       ELSE name_of(src_chars(cs)[1], src_chars(cs)[2]),
       name_of(cs[Len(cs) - 1], cs[Len(cs)]),
       promotion)

\* cs without its first / its last character
but_first(cs) == SubSeq(cs, 2, Len(cs))
but_last(cs) == SubSeq(cs, 1, Len(cs) - 1)

\* what a pattern that ends in $ is matched against: $ matches at the end of
\* the string and also just before a newline that ends it
before_newline(cs) ==
  IF Len(cs) >= 1 /\ cs[Len(cs)] = "\n" THEN but_last(cs) ELSE cs

\* re.match of match_normal, then of match_promotion, on the notation
match_move(cs) ==
  IF Len(cs) >= 1 /\ cs[1] \in Range(PIECES) /\ match_common(but_first(cs))
  THEN common_groups(but_first(cs), cs[1], None)
  ELSE IF match_common(cs) THEN common_groups(cs, None, None)
  ELSE IF Len(cs) >= 1 /\ cs[Len(cs)] \in Range(PIECES) /\ match_common(but_last(cs))
  THEN common_groups(but_last(cs), None, cs[Len(cs)])
  ELSE Move(None, None, None, None, None, None)

parse_move(cs) ==
  IF cs = <<"0", "-", "0">> THEN CastlingMove("0-0")
  ELSE IF cs = <<"0", "-", "0", "-", "0">> THEN CastlingMove("0-0-0")
  ELSE match_move(before_newline(cs))

\* whether parse_move raises: re.match raises on no string, and both
\* patterns name only groups that are fields of Move
parse_move_raises(cs) == FALSE

\* Move.__bool__
move_bool(move) == move.castling # None \/ move.dest # None

\* ------------------------------------------------------------------ Board
\* A Board value B is the record of the object's fields:
\*   board (_board), active_player, en_passant, available_castlings,
\*   fifty_move_clock, move_number.

\* str.split(sep) on a sequence of characters
RECURSIVE split(_, _)
split(s, sep) ==
  IF \A i \in 1..Len(s) : s[i] # sep
  THEN <<s>>
  ELSE LET i == CHOOSE k \in 1..Len(s) : s[k] = sep /\ \A j \in 1..(k - 1) : s[j] # sep
       IN <<SubSeq(s, 1, i - 1)>> \o split(SubSeq(s, i + 1, Len(s)), sep)

reversed(seq) == [i \in 1..Len(seq) |-> seq[Len(seq) + 1 - i]]

RECURSIVE join(_)
join(seqs) == IF seqs = <<>> THEN <<>> ELSE Head(seqs) \o join(Tail(seqs))

\* the loop of Board.__init__ over the placement characters; an unknown
\* character raises ValueError, recorded as the one-element list <<"ValueError">>
RECURSIVE parse_placement(_)
parse_placement(cs) ==
  IF cs = <<>> THEN <<>>
  ELSE LET c == Head(cs)
           rest == parse_placement(Tail(cs))
       IN IF rest = <<"ValueError">> THEN rest
          ELSE IF c \in Range(RANKS)
          THEN [i \in 1..(IndexOf(RANKS, c) + 1) |-> "."] \o rest
          ELSE IF upper(c) \in Range(PIECES) \cup {"P"}
          THEN <<c>> \o rest
          ELSE <<"ValueError">>

\* whether Board(fen) raises
Board_raises(fen) ==
  LET cells == parse_placement(join(reversed(split(fen.board_desc, "/"))))
  IN \/ Len(cells) # 64
     \/ fen.active \notin {"w", "b"}
     \/ (fen.en_passant # "-" /\ fen.en_passant \notin SquareNameSet)
     \/ (fen.castling # <<"-">> /\ \E i \in 1..Len(fen.castling) : fen.castling[i] \notin {"K", "Q", "k", "q"})

\* Board.__init__ on the six fields of a position string (already split on
\* blanks, the two counters already converted by int())
Board(fen) ==
  LET cells == parse_placement(join(reversed(split(fen.board_desc, "/"))))
      has(c) == fen.castling # <<"-">> /\ c \in Range(fen.castling)
  IN [ board |-> [s \in Squares |-> cells[s + 1]],
       active_player |-> IF fen.active = "w" THEN WHITE ELSE BLACK,
       en_passant |-> IF fen.en_passant = "-" THEN NoSquare ELSE Square(fen.en_passant),
       available_castlings |->
         [c \in {"K", "k", "Q", "q"} |->
            IF ~has(c) THEN None
            ELSE IF c = "K" THEN "H"
            ELSE IF c = "k" THEN "h"
            ELSE IF c = "Q" THEN "A"
            ELSE "a"],
       fifty_move_clock |-> fen.fifty_move_clock,
       move_number |-> fen.move_number ]

\* the decimal digits, for int() and str() of the two counters
DIGITS == <<"0", "1", "2", "3", "4", "5", "6", "7", "8", "9">>

\* int(ds) of a string of decimal digits
RECURSIVE int(_)
int(ds) ==
  IF ds = <<>> THEN 0
  ELSE 10 * int(SubSeq(ds, 1, Len(ds) - 1)) + IndexOf(DIGITS, ds[Len(ds)])

\* str(n) of a non-negative integer
RECURSIVE str(_)
str(n) == IF n < 10 THEN <<DIGITS[n + 1]>> ELSE str(n \div 10) \o <<DIGITS[(n % 10) + 1]>>

\* fen.split(): the fields of a position string between single blanks
position_fields(s) == split(s, " ")

\* whether the unpacking of the six fields, or int() of a counter, raises
fields_raise(f) ==
  \/ Len(f) # 6
  \/ \E k \in {5, 6} : f[k] = <<>> \/ \E i \in 1..Len(f[k]) : f[k][i] \notin Range(DIGITS)

\* the six fields as Board.__init__ reads them: the active colour and the
\* en passant square as names (Square() lowers the name it is given), the
\* counters through int()
read_fields(f) ==
  [board_desc |-> f[1],
   active |-> IF Len(f[2]) = 1 THEN f[2][1] ELSE "?",
   castling |-> f[3],
   en_passant |-> IF f[4] = <<"-">> THEN "-"
                  ELSE IF /\ Len(f[4]) = 2
                          /\ lower(f[4][1]) \in Range(FILES)
                          /\ f[4][2] \in Range(RANKS)
                  THEN name_of(lower(f[4][1]), f[4][2])
                  ELSE "?",
   fifty_move_clock |-> int(f[5]),
   move_number |-> int(f[6])]

\* whether Board(s) raises, for a position string s
Board_of_string_raises(s) ==
  fields_raise(position_fields(s)) \/ Board_raises(read_fields(position_fields(s)))

\* Board(s) for a position string s
Board_of_string(s) == Board(read_fields(position_fields(s)))

\* format_row of fen: the loop over the cells of a row, empty_count cells
\* counted so far
RECURSIVE format_cells(_, _)
format_cells(row, empty_count) ==
  IF row = <<>> THEN (IF empty_count > 0 THEN str(empty_count) ELSE <<>>)
  ELSE IF Head(row) = "." THEN format_cells(Tail(row), empty_count + 1)
  ELSE (IF empty_count > 0 THEN str(empty_count) ELSE <<>>)
       \o <<Head(row)>> \o format_cells(Tail(row), 0)

format_row(row) == format_cells(row, 0)

\* sep.join(seqs)
RECURSIVE sep_join(_, _)
sep_join(sep, seqs) ==
  IF Len(seqs) <= 1 THEN join(seqs)
  ELSE Head(seqs) \o <<sep>> \o sep_join(sep, Tail(seqs))

\* the keys of _available_castlings in the order the dict holds them
castling_keys_unsorted(B) ==
  LET held(k) == B.available_castlings[k] # None
  IN SelectSeq(<<"K", "k", "Q", "q">>, held)

\* sorted(k for k, v in _available_castlings.items() if v is not None):
\* capitals sort before small letters
castling_keys(B) ==
  LET held(k) == B.available_castlings[k] # None
  IN SelectSeq(<<"K", "Q", "k", "q">>, held)

\* Board.fen(): the position string of a Board
fen(B) ==
  sep_join(" ",
    << sep_join("/", reversed([r \in 1..8 |->
                                 format_row([c \in 1..8 |-> B.board[(r - 1) * 8 + c - 1]])])),
       <<IF B.active_player = WHITE THEN "w" ELSE "b">>,
       IF castling_keys(B) = <<>> THEN <<"-">> ELSE castling_keys(B),
       IF B.en_passant = NoSquare THEN <<"-">> ELSE chars(square_name(B.en_passant)),
       str(B.fifty_move_clock),
       str(B.move_number) >>)

\* Board.__getitem__; self[None] raises (no _square), recorded as "raise"
at(B, s) == IF s = NoSquare THEN "raise" ELSE B.board[s]

\* piece in self._board
on_board(B, piece) == \E s \in Squares : B.board[s] = piece

\* self._board.index(piece): the first square holding it (ValueError, recorded
\* as NoSquare, when there is none)
board_index(B, piece) ==
  IF on_board(B, piece)
  THEN CHOOSE s \in Squares : B.board[s] = piece /\ \A t \in 0..(s - 1) : B.board[t] # piece
  ELSE NoSquare

en_passant_pawn(B) ==
  SquareAdd(B.en_passant, <<0, PUSH_DIRECTION(get_opponent(B.active_player))>>)

sgn(x) == IF x = 0 THEN 0 ELSE IF x < 0 THEN -1 ELSE 1

\* a walk that never looks at the squares it passes (what the while loop
\* of __threatens would be without its obstacle test)
passes_over_pieces(B, next_square, dv, dest) == TRUE

\* the while loop of __threatens: walk from next_square to dest
RECURSIVE no_obstacle(_, _, _, _)
no_obstacle(B, next_square, dv, dest) ==
  IF next_square = dest THEN TRUE
  ELSE IF at(B, next_square) # "." THEN FALSE
  ELSE no_obstacle(B, SquareAdd(next_square, dv), dv, dest)

KnightJump(src, dest) ==
  PyIn(PySquare(SquareSub(dest, <<file(src), rank(src)>>)),
       [i \in 1..Len(KNIGHT_MOVES) |-> PyTuple(KNIGHT_MOVES[i])])

threatens(B, src, dest) ==
  IF at(B, src) = "." THEN FALSE
  ELSE IF get_piece_owner(at(B, src)) = get_piece_owner(at(B, dest)) THEN FALSE
  ELSE
    LET src_owner == get_piece_owner(at(B, src))
        piece == upper(at(B, src))
        dv == <<sgn(file(dest) - file(src)), sgn(rank(dest) - rank(src))>>
    IN CASE piece = "K" -> dist(src, dest) = 1
         [] piece = "N" -> KnightJump(src, dest)
         [] piece = "P" ->
              IF dist(src, dest) = 1
              THEN IF rank(dest) - rank(src) # PUSH_DIRECTION(src_owner) THEN FALSE
                   ELSE Abs(file(dest) - file(src)) = 1
              ELSE FALSE
         [] piece = "R" ->
              IF file(src) # file(dest) /\ rank(src) # rank(dest) THEN FALSE
              ELSE no_obstacle(B, SquareAdd(src, dv), dv, dest)
         [] piece = "B" ->
              IF Abs(file(src) - file(dest)) # Abs(rank(src) - rank(dest)) THEN FALSE
              ELSE no_obstacle(B, SquareAdd(src, dv), dv, dest)
         [] piece = "Q" ->
              IF /\ file(src) # file(dest)
                 /\ rank(src) # rank(dest)
                 /\ Abs(file(src) - file(dest)) # Abs(rank(src) - rank(dest))
              THEN FALSE
              ELSE no_obstacle(B, SquareAdd(src, dv), dv, dest)
         [] OTHER -> FALSE

get_square_attackers(B, square) ==
  LET owner == get_piece_owner(at(B, square))
  IN {i \in Squares :
        /\ ~(B.board[i] = "." \/ get_piece_owner(B.board[i]) = owner)
        /\ threatens(B, i, square)}

is_threatened_by(B, square, player) ==
  \E s \in get_square_attackers(B, square) : get_piece_owner(at(B, s)) = player

\* is_in_check(player); the caller passes the active player for "no argument"
is_in_check(B, player) ==
  LET king == format_piece("K", player)
      king_square == board_index(B, king)
      opponent == get_opponent(player)
  IN is_threatened_by(B, king_square, opponent)

is_in_legal_state(B) ==
  IF ~on_board(B, "k") \/ ~on_board(B, "K") THEN FALSE
  ELSE IF is_in_check(B, get_opponent(B.active_player)) THEN FALSE
  ELSE TRUE

\* __is_pseudo_legal with the blocked test made on the destination alone,
\* not on the square before the pawn
is_pseudo_legal_far_square_only(B, src, dest) ==
  IF at(B, src) = "." THEN FALSE
  ELSE IF get_piece_owner(at(B, src)) = get_piece_owner(at(B, dest)) THEN FALSE
  ELSE IF upper(at(B, src)) = "P"
  THEN LET src_owner == get_piece_owner(at(B, src))
           dest_owner == get_piece_owner(at(B, dest))
           opponent == get_opponent(src_owner)
       IN IF threatens(B, src, dest) /\ (dest_owner = opponent \/ dest = B.en_passant)
          THEN TRUE
          ELSE IF file(dest) # file(src) THEN FALSE
          ELSE IF dist(src, dest) = 1 /\ at(B, dest) # "." THEN FALSE
          ELSE IF dist(src, dest) = 1
          THEN rank(dest) - rank(src) = PUSH_DIRECTION(src_owner)
          ELSE IF dist(src, dest) = 2
          THEN IF rank(src) \notin {BACK_RANK(src_owner), PAWN_RANK(src_owner)} THEN FALSE
               ELSE IF at(B, dest) # "." THEN FALSE
               ELSE rank(dest) - rank(src) = 2 * PUSH_DIRECTION(src_owner)
          ELSE FALSE
  ELSE threatens(B, src, dest)

is_pseudo_legal(B, src, dest) ==
  IF at(B, src) = "." THEN FALSE
  ELSE IF get_piece_owner(at(B, src)) = get_piece_owner(at(B, dest)) THEN FALSE
  ELSE IF upper(at(B, src)) = "P"
  THEN LET src_owner == get_piece_owner(at(B, src))
           dest_owner == get_piece_owner(at(B, dest))
           opponent == get_opponent(src_owner)
       IN IF threatens(B, src, dest) /\ (dest_owner = opponent \/ dest = B.en_passant)
          THEN TRUE
          ELSE IF file(dest) # file(src) THEN FALSE
          ELSE IF at(B, SquareAdd(src, <<0, PUSH_DIRECTION(src_owner)>>)) # "." THEN FALSE
          ELSE IF dist(src, dest) = 1
          THEN rank(dest) - rank(src) = PUSH_DIRECTION(src_owner)
          ELSE IF dist(src, dest) = 2
          THEN IF rank(src) \notin {BACK_RANK(src_owner), PAWN_RANK(src_owner)} THEN FALSE
               ELSE IF at(B, dest) # "." THEN FALSE
               ELSE rank(dest) - rank(src) = 2 * PUSH_DIRECTION(src_owner)
          ELSE FALSE
  ELSE threatens(B, src, dest)


\* the squares legal_moves(src) returns; defined below, after make_move
RECURSIVE legal_moves(_, _)

\* __disambiguate_source_squares: the squares the move's source specifier
\* may denote (a malformed specifier raises ValueError, recorded as {})
disambiguate_source_squares(B, move) ==
  LET dest_square == Square(move.dest)
      piece == format_piece(Or(move.piece, "P"), B.active_player)
  IN IF ~on_board(B, piece) THEN {}
     ELSE IF move.src # None
     THEN IF move.src \in SquareNameSet
          THEN (IF at(B, Square(move.src)) = piece THEN {Square(move.src)} ELSE {})
          ELSE IF move.src \in Range(RANKS)
          THEN {s \in Squares : /\ rank(s) = IndexOf(RANKS, move.src)
                                /\ B.board[s] = piece
                                /\ dest_square \in legal_moves(B, s)}
          ELSE IF move.src \in Range(FILES)
          THEN {s \in Squares : /\ file(s) = IndexOf(FILES, move.src)
                                /\ B.board[s] = piece
                                /\ dest_square \in legal_moves(B, s)}
          ELSE {}
     ELSE {s \in Squares : B.board[s] = piece /\ dest_square \in legal_moves(B, s)}

\* next(iter(sources)) as a square name; StopIteration on the empty set is
\* recorded as None.  Every caller that goes on has exactly one source.
first_source(sources) ==
  IF sources = {} THEN None ELSE square_name(CHOOSE s \in sources : TRUE)

\* the capture marker disambiguate_move leaves on the move
capture_marker(B, move) ==
  IF at(B, Square(move.dest)) # "." THEN "x"
  ELSE IF move.piece = None /\ Square(move.dest) = B.en_passant THEN "x"
  ELSE move.capture

\* disambiguate_move: the move with its source square and capture marker set
disambiguate_move(B, move) ==
  IF move.castling # None THEN move
  ELSE [move EXCEPT !.src = first_source(disambiguate_source_squares(B, move)),
                    !.capture = capture_marker(B, move)]

\* the side key of a castling move ('K' if move.castling == '0-0' else 'Q')
castling_side(B, move) ==
  format_piece(IF move.castling = "0-0" THEN "K" ELSE "Q", B.active_player)

\* Square(rook_file + rank) of the tracked rook of a castling side
tracked_rook_square(B, side) ==
  SquareFR(IndexOf(FILES, lower(B.available_castlings[side])),
           IndexOf(RANKS, IF B.active_player = WHITE THEN "1" ELSE "8"))

\* whether make_move(move) ends in an exception
make_move_raises(B, move) ==
  IF move.castling # None
  THEN \/ B.available_castlings[castling_side(B, move)] = None
       \/ ~on_board(B, format_piece("K", B.active_player))
  ELSE disambiguate_source_squares(B, move) = {}

\* both castling rights of the active player cleared
clear_castlings(B) ==
  [c \in DOMAIN B.available_castlings |->
     IF c \in {format_piece("K", B.active_player), format_piece("Q", B.active_player)}
     THEN None
     ELSE B.available_castlings[c]]

\* the castling branch without the assignment that empties the rook's square
castle_pieces_rook_stays(B, king, king_square, rook_square, ends) ==
  [[[B.board EXCEPT ![king_square] = "."]
             EXCEPT ![Square(ends[1])] = king]
             EXCEPT ![Square(ends[2])] = format_piece("R", B.active_player)]

\* the four board assignments of the castling branch, in order
castle_pieces(B, king, king_square, rook_square, ends) ==
  [[[[B.board EXCEPT ![king_square] = "."]
              EXCEPT ![rook_square] = "."]
              EXCEPT ![Square(ends[1])] = king]
              EXCEPT ![Square(ends[2])] = format_piece("R", B.active_player)]

\* the castling branch of make_move
make_castling(B, move) ==
  [B EXCEPT !.board = castle_pieces(B, format_piece("K", B.active_player),
                                    board_index(B, format_piece("K", B.active_player)),
                                    tracked_rook_square(B, castling_side(B, move)),
                                    CASTLING_END_SQUARES(B.active_player, move.castling)),
            !.available_castlings = clear_castlings(B),
            !.fifty_move_clock = @ + 1]

\* rights toggled by a rook move from the back rank: the right of the rook's
\* file is cleared where it is set and set where it is cleared
revoke_castlings_toggled(B, move, src_square) ==
  IF move.piece = "K" THEN clear_castlings(B)
  ELSE IF move.piece = "R" /\ rank(src_square) = BACK_RANK(B.active_player)
  THEN [c \in DOMAIN B.available_castlings |->
          IF B.available_castlings[c] = format_piece(FILES[file(src_square) + 1], B.active_player)
          THEN None
          ELSE IF /\ B.available_castlings[c] = None
                  /\ \/ c = format_piece("K", B.active_player) /\ file(src_square) = 7
                     \/ c = format_piece("Q", B.active_player) /\ file(src_square) = 0
          THEN format_piece(FILES[file(src_square) + 1], B.active_player)
          ELSE B.available_castlings[c]]
  ELSE B.available_castlings

\* rights revoked as if every rook move were a king move
revoke_castlings_any_rook(B, move, src_square) ==
  IF move.piece = "K" \/ move.piece = "R" THEN clear_castlings(B)
  ELSE B.available_castlings

\* the castling rights after a non-castling move
revoke_castlings(B, move, src_square) ==
  IF move.piece = "K" THEN clear_castlings(B)
  ELSE IF move.piece = "R" /\ rank(src_square) = BACK_RANK(B.active_player)
  THEN [c \in DOMAIN B.available_castlings |->
          IF B.available_castlings[c] = format_piece(FILES[file(src_square) + 1], B.active_player)
          THEN None
          ELSE B.available_castlings[c]]
  ELSE B.available_castlings

\* the en passant target after a non-castling move
next_en_passant(move, src_square, dest_square) ==
  IF move.piece = None /\ Abs(rank(src_square) - rank(dest_square)) = 2
  THEN SquareFR(file(src_square), (rank(src_square) + rank(dest_square)) \div 2)
  ELSE NoSquare

\* the half-move clock after a non-castling move: the increment stands in
\* the elif branch of the rook
next_fifty_move_clock(B, move) ==
  IF move.piece # "K" /\ move.piece = "R"
  THEN B.fifty_move_clock + 1
  ELSE B.fifty_move_clock

\* the removal tried once self._en_passant = None has run: the destination is
\* no en passant target any more, and the board stays as it is
remove_en_passant_pawn_target_cleared(B, disambiguated_move, dest_square) ==
  IF disambiguated_move.piece = None /\ dest_square = NoSquare
  THEN [B.board EXCEPT ![en_passant_pawn(B)] = "."]
  ELSE B.board

\* the board after the en passant pawn is removed (if the move captures en passant)
remove_en_passant_pawn(B, disambiguated_move, dest_square) ==
  IF disambiguated_move.piece = None /\ dest_square = B.en_passant
  THEN [B.board EXCEPT ![en_passant_pawn(B)] = "."]
  ELSE B.board

\* self[dest_square] = self[src_square]; self[src_square] = '.'
relocate(b, src_square, dest_square) ==
  [[b EXCEPT ![dest_square] = b[src_square]] EXCEPT ![src_square] = "."]

\* the promotion of a pawn that reached the last rank
promote(B, b, move, dest_square) ==
  IF move.piece = None /\ rank(dest_square) = BACK_RANK(get_opponent(B.active_player))
  THEN [b EXCEPT ![dest_square] = format_piece(Or(move.promotion, "Q"), B.active_player)]
  ELSE b

\* the non-castling branch of make_move once the move is disambiguated
move_piece(B, move, disambiguated_move, src_square, dest_square) ==
  [B EXCEPT !.board = promote(B, relocate(remove_en_passant_pawn(B, disambiguated_move, dest_square),
                                          src_square, dest_square),
                              move, dest_square),
            !.en_passant = next_en_passant(move, src_square, dest_square),
            !.available_castlings = revoke_castlings(B, move, src_square),
            !.fifty_move_clock = next_fifty_move_clock(B, move)]

\* the turn passed with the move number counted up after either player
pass_turn_counting_both(B) ==
  [B EXCEPT !.active_player = get_opponent(B.active_player),
            !.move_number = @ + 1]

\* the last two statements of make_move
pass_turn(B) ==
  [B EXCEPT !.active_player = get_opponent(B.active_player),
            !.move_number = IF get_opponent(B.active_player) = WHITE THEN @ + 1 ELSE @]

\* the non-castling branch of make_move, from the disambiguated move on
\* (the Board as it was when disambiguate_move raised)
make_disambiguated(B, move, disambiguated_move) ==
  IF disambiguated_move.src = None THEN B
  ELSE pass_turn(move_piece(B, move, disambiguated_move,
                            Square(disambiguated_move.src), Square(disambiguated_move.dest)))

\* make_move(move): the Board it leaves (the Board as it was when it raises)
make_move(B, move) ==
  IF move.castling # None
  THEN (IF make_move_raises(B, move) THEN B ELSE pass_turn(make_castling(B, move)))
  ELSE make_disambiguated(B, move, disambiguate_move(B, move))

\* copy.copy of a Board: a new object whose _board and _available_castlings
\* are the receiver's own list and dict
copy_copy(B) == [fields |-> B, shared |-> {"_board", "_available_castlings"}]

\* copy.deepcopy of a Board: a new object with the receiver's field values,
\* sharing none of its mutable parts (the list _board, the dict
\* _available_castlings) with it
deepcopy(B) == [fields |-> B, shared |-> {}]

\* what an object X that shares the parts `shared` with another holds once
\* make_move has left that other object as B: item assignments to a shared
\* list or dict show in both, rebound attributes only in the one
follow(X, shared, B) ==
  [X EXCEPT !.board = IF "_board" \in shared THEN B.board ELSE @,
            !.available_castlings =
               IF "_available_castlings" \in shared THEN B.available_castlings ELSE @]

\* make_move_copy: the move applied to a deep copy
make_move_copy(B, move) == make_move(deepcopy(B).fields, move)

\* __is_legal
is_legal(B, src, dest) ==
  IF ~is_pseudo_legal(B, src, dest) THEN FALSE
  ELSE is_in_legal_state(
         make_move_copy(B, Move(None, None,
                                IF upper(at(B, src)) = "P" THEN None ELSE upper(at(B, src)),
                                square_name(src), square_name(dest), None)))

\* the squares from next_square in direction dv up to the edge of the board
RECURSIVE scan(_, _)
scan(next_square, dv) ==
  IF next_square = NoSquare THEN {}
  ELSE {next_square} \cup scan(SquareAdd(next_square, dv), dv)

\* slide(moves) of legal_moves
slide(B, src, moves) ==
  {s \in UNION {scan(SquareAdd(src, moves[i]), moves[i]) : i \in 1..Len(moves)} : is_legal(B, src, s)}

\* the loop of legal_moves over the offsets of a king or a knight
jumps(B, src, moves) ==
  {s \in {SquareAdd(src, moves[i]) : i \in 1..Len(moves)} : s # NoSquare /\ is_legal(B, src, s)}

\* the pawn's candidate squares without the double push
pawn_moves_single_push(B, src, owner, push_square) ==
  {s \in {push_square} : s # NoSquare /\ is_legal(B, src, s)}
  \cup {s \in {SquareAdd(src, <<-1, PUSH_DIRECTION(owner)>>),
               SquareAdd(src, <<1, PUSH_DIRECTION(owner)>>)} :
          s # NoSquare /\ is_legal(B, src, s)}

\* the pawn branch of legal_moves
pawn_moves(B, src, owner, push_square) ==
  {s \in {push_square} : s # NoSquare /\ is_legal(B, src, s)}
  \cup {s \in {SquareAdd(push_square, <<0, PUSH_DIRECTION(owner)>>)} :
          /\ rank(src) \in {BACK_RANK(owner), PAWN_RANK(owner)}
          /\ s # NoSquare
          /\ is_legal(B, src, s)}
  \cup {s \in {SquareAdd(src, <<-1, PUSH_DIRECTION(owner)>>),
               SquareAdd(src, <<1, PUSH_DIRECTION(owner)>>)} :
          s # NoSquare /\ is_legal(B, src, s)}

legal_moves(B, src) ==
  IF at(B, src) = "." THEN {}
  ELSE (IF upper(at(B, src)) = "K" THEN jumps(B, src, KING_MOVES) ELSE {})
       \cup (IF upper(at(B, src)) = "N" THEN jumps(B, src, KNIGHT_MOVES) ELSE {})
       \cup (IF upper(at(B, src)) = "P"
             THEN pawn_moves(B, src, get_piece_owner(at(B, src)),
                             SquareAdd(src, <<0, PUSH_DIRECTION(get_piece_owner(at(B, src)))>>))
             ELSE {})
       \cup (IF upper(at(B, src)) = "R" \/ upper(at(B, src)) = "Q"
             THEN slide(B, src, LATERAL_MOVES) ELSE {})
       \cup (IF upper(at(B, src)) = "B" \/ upper(at(B, src)) = "Q"
             THEN slide(B, src, DIAGONAL_MOVES) ELSE {})

\* the span of squares strictly between the king and the rook is empty
span_is_empty(B, king_square, rook_square) ==
  \A s \in (Min(king_square, rook_square) + 1)..(Max(king_square, rook_square) - 1) :
     B.board[s] = "."

\* the castling branch of is_legal_move
is_legal_castling(B, move) ==
  IF is_in_check(B, B.active_player) THEN FALSE
  ELSE IF \E i \in 1..2 :
            is_threatened_by(B, Square(CASTLING_END_SQUARES(B.active_player, move.castling)[i]),
                             get_opponent(B.active_player))
  THEN FALSE
  ELSE IF B.available_castlings[castling_side(B, move)] = None THEN FALSE
  ELSE span_is_empty(B, board_index(B, format_piece("K", B.active_player)),
                     tracked_rook_square(B, castling_side(B, move)))

\* is_legal_move of a non-castling move, from the possible sources on
is_legal_from(B, move, dest_square, possible_sources) ==
  IF Cardinality(possible_sources) # 1 THEN FALSE
  ELSE IF /\ upper(at(B, CHOOSE s \in possible_sources : TRUE)) # move.piece
          /\ ~(move.piece = None /\ upper(at(B, CHOOSE s \in possible_sources : TRUE)) = "P")
  THEN FALSE
  ELSE is_legal(B, CHOOSE s \in possible_sources : TRUE, dest_square)

is_legal_move(B, move) ==
  IF move.castling # None THEN is_legal_castling(B, move)
  ELSE IF /\ move.capture # None
          /\ get_piece_owner(at(B, Square(move.dest))) # get_opponent(B.active_player)
          /\ (move.piece # None \/ B.en_passant # Square(move.dest))
  THEN FALSE
  ELSE is_legal_from(B, move, Square(move.dest), disambiguate_source_squares(B, move))

\* whether __is_legal(src, dest) ends in an exception: the make_move of
\* make_move_copy is the one call in it that can
is_legal_may_raise(B, src, dest) ==
  /\ is_pseudo_legal(B, src, dest)
  /\ make_move_raises(B, Move(None, None,
                              IF upper(at(B, src)) = "P" THEN None ELSE upper(at(B, src)),
                              square_name(src), square_name(dest), None))

\* whether legal_moves(src) ends in an exception (asked of every square of
\* the board, the candidate squares of legal_moves among them)
legal_moves_may_raise(B, src) ==
  at(B, src) # "." /\ \E dest \in Squares : is_legal_may_raise(B, src, dest)

\* whether __disambiguate_source_squares(move) ends in an exception: a
\* source that is no square, rank or file, or a legal_moves that raises
disambiguate_may_raise(B, move) ==
  LET piece == format_piece(Or(move.piece, "P"), B.active_player)
  IN /\ on_board(B, piece)
     /\ IF move.src = None
        THEN \E s \in Squares : B.board[s] = piece /\ legal_moves_may_raise(B, s)
        ELSE IF move.src \in SquareNameSet THEN FALSE
        ELSE IF move.src \in Range(RANKS)
        THEN \E s \in Squares : /\ rank(s) = IndexOf(RANKS, move.src)
                                 /\ B.board[s] = piece
                                 /\ legal_moves_may_raise(B, s)
        ELSE IF move.src \in Range(FILES)
        THEN \E s \in Squares : /\ file(s) = IndexOf(FILES, move.src)
                                 /\ B.board[s] = piece
                                 /\ legal_moves_may_raise(B, s)
        ELSE TRUE

\* whether is_legal_move(move) ends in an exception
is_legal_move_raises(B, move) ==
  IF move.castling # None
  THEN \/ move.castling \notin Range(CASTLINGS)
       \/ ~on_board(B, format_piece("K", B.active_player))
  ELSE \/ move.dest = None
       \/ move.dest \notin SquareNameSet
       \/ /\ ~(/\ move.capture # None
               /\ get_piece_owner(at(B, Square(move.dest))) # get_opponent(B.active_player)
               /\ (move.piece # None \/ B.en_passant # Square(move.dest)))
          /\ \/ disambiguate_may_raise(B, move)
             \/ /\ Cardinality(disambiguate_source_squares(B, move)) = 1
                /\ is_legal_may_raise(B, CHOOSE x \in disambiguate_source_squares(B, move) : TRUE,
                                      Square(move.dest))

\* the move with its source specifier replaced (canonical_move.src = src)
with_src(move, src) == [move EXCEPT !.src = src]

\* a pawn capture (canonical_move.piece is None and canonical_move.capture
\* is not None)
pawn_capture(move) == move.piece = None /\ move.capture # None

\* the loop of get_move_canonical_form with no legality test: no specifier,
\* or the file for a pawn capture
minimal_src_unchecked(B, maximal_form, src_addr, skip_none) ==
  IF skip_none THEN chars(src_addr)[1] ELSE None

\* the loop of get_move_canonical_form over (None, src_file, src_rank,
\* src_addr): the first specifier is_legal_move accepts, None skipped for a
\* pawn capture; the last one stays where none is accepted
minimal_src(B, maximal_form, src_addr, skip_none) ==
  IF ~skip_none /\ is_legal_move(B, with_src(maximal_form, None)) THEN None
  ELSE IF is_legal_move(B, with_src(maximal_form, chars(src_addr)[1])) THEN chars(src_addr)[1]
  ELSE IF is_legal_move(B, with_src(maximal_form, chars(src_addr)[2])) THEN chars(src_addr)[2]
  ELSE src_addr

\* whether get_move_canonical_form(move) ends in an exception: the
\* StopIteration of disambiguate_move on a move with no source
canonical_form_raises(B, move) ==
  move.castling = None /\ disambiguate_source_squares(B, move) = {}

\* get_move_canonical_form with the pawn capture read off the move as it was
\* given, not off its maximal form
canonical_from_given(B, move, maximal_form) ==
  IF maximal_form.castling # None \/ maximal_form.src = None THEN maximal_form
  ELSE with_src(maximal_form,
                minimal_src(B, maximal_form, maximal_form.src, pawn_capture(move)))

\* get_move_canonical_form, from the maximal form on
canonical_from(B, move, maximal_form) ==
  IF maximal_form.castling # None \/ maximal_form.src = None THEN maximal_form
  ELSE with_src(maximal_form,
                minimal_src(B, maximal_form, maximal_form.src, pawn_capture(maximal_form)))

get_move_canonical_form(B, move) == canonical_from(B, move, disambiguate_move(B, move))

\* the notation string without the capture mark
repr_without_capture(move) ==
  IF move.castling # None
  THEN (IF move.castling = "0-0" THEN <<"0", "-", "0">> ELSE <<"0", "-", "0", "-", "0">>)
  ELSE (IF move.piece = None THEN <<>> ELSE <<move.piece>>)
       \o (IF move.src = None THEN <<>>
           ELSE IF move.src \in SquareNameSet THEN chars(move.src) ELSE <<move.src>>)
       \o chars(move.dest)
       \o (IF move.promotion = None THEN <<>> ELSE <<move.promotion>>)

\* Move.__repr__: the notation string of a move
repr(move) ==
  IF move.castling # None
  THEN (IF move.castling = "0-0" THEN <<"0", "-", "0">> ELSE <<"0", "-", "0", "-", "0">>)
  ELSE (IF move.piece = None THEN <<>> ELSE <<move.piece>>)
       \o (IF move.src = None THEN <<>>
           ELSE IF move.src \in SquareNameSet THEN chars(move.src) ELSE <<move.src>>)
       \o (IF move.capture = None THEN <<>> ELSE <<move.capture>>)
       \o chars(move.dest)
       \o (IF move.promotion = None THEN <<>> ELSE <<move.promotion>>)

\* the moves get_all_legal_moves adds for the piece on square i, had it
\* no promotion branch
piece_moves_plain(B, i) ==
  {Move(None, None, IF upper(B.board[i]) = "P" THEN None ELSE upper(B.board[i]),
        square_name(i), square_name(s), None) : s \in legal_moves(B, i)}

\* the moves get_all_legal_moves adds for the piece on square i
piece_moves(B, i) ==
  IF upper(B.board[i]) = "P" /\ rank(i) = PAWN_RANK(get_opponent(B.active_player))
  THEN {Move(None, None, None, square_name(i), square_name(s), promotion) :
          s \in legal_moves(B, i), promotion \in {"R", "B", "N", "Q"}}
  ELSE {Move(None, None, IF upper(B.board[i]) = "P" THEN None ELSE upper(B.board[i]),
             square_name(i), square_name(s), None) : s \in legal_moves(B, i)}

get_all_legal_moves(B) ==
  {CastlingMove(CASTLINGS[c]) : c \in {c \in 1..Len(CASTLINGS) : is_legal_move(B, CastlingMove(CASTLINGS[c]))}}
  \cup UNION {piece_moves(B, i) : i \in {i \in Squares : get_piece_owner(B.board[i]) = B.active_player}}

is_mated(B) ==
  is_in_check(B, B.active_player) /\ Cardinality(get_all_legal_moves(B)) = 0

\* ---------------------------------------------------------- state machine
\* The six fields of the Board under play, the move handed to the last
\* make_move (NoMove before the first) and the number of make_move calls.
VARIABLES board, active_player, en_passant, available_castlings,
          fifty_move_clock, move_number, last_move, ply, new_board, exported,
          returned

vars == <<board, active_player, en_passant, available_castlings,
          fifty_move_clock, move_number, last_move, ply, new_board, exported,
          returned>>

NoMove == Move(None, None, None, None, None, None)

\* the Board object as a value
Cur ==
  [board |-> board, active_player |-> active_player, en_passant |-> en_passant,
   available_castlings |-> available_castlings,
   fifty_move_clock |-> fifty_move_clock, move_number |-> move_number]

\* Starting positions handed to Board(): one king a side, the side not to
\* move not in check, castling rights only with king and rook at home, an
\* en passant target only behind a pawn that has just advanced two squares.
StartPositions ==
  <<
     \* castling on both wings (test_normal): r3k3/8/8/8/8/8/8/4K2R w Kq - 0 1
     [board_desc |-> <<"r","3","k","3","/","8","/","8","/","8","/","8","/","8","/","8","/","4","K","2","R">>,
      active |-> "w", castling |-> <<"K","q">>, en_passant |-> "-",
      fifty_move_clock |-> 0, move_number |-> 1],
     \* both white rooks at home (test_move): 4k3/8/8/8/8/8/8/R3K2R w KQ - 0 1
     [board_desc |-> <<"4","k","3","/","8","/","8","/","8","/","8","/","8","/","8","/","R","3","K","2","R">>,
      active |-> "w", castling |-> <<"K","Q">>, en_passant |-> "-",
      fifty_move_clock |-> 0, move_number |-> 1],
     \* a lone knight (test_knight_moves): 8/8/8/4N3/8/8/8/k6K w - - 0 1
     [board_desc |-> <<"8","/","8","/","8","/","4","N","3","/","8","/","8","/","8","/","k","6","K">>,
      active |-> "w", castling |-> <<"-">>, en_passant |-> "-",
      fifty_move_clock |-> 0, move_number |-> 1],
     \* sliding pieces (test_sliding_moves): 8/8/8/4B3/8/2q1R3/8/1k5K w - - 0 1
     [board_desc |-> <<"8","/","8","/","8","/","4","B","3","/","8","/","2","q","1","R","3","/","8","/","1","k","5","K">>,
      active |-> "w", castling |-> <<"-">>, en_passant |-> "-",
      fifty_move_clock |-> 0, move_number |-> 1],
     \* en passant and a double push (test_pawn_moves): k6K/8/8/6pP/8/8/4P3/8 w - g6 0 1
     [board_desc |-> <<"k","6","K","/","8","/","8","/","6","p","P","/","8","/","8","/","4","P","3","/","8">>,
      active |-> "w", castling |-> <<"-">>, en_passant |-> "g6",
      fifty_move_clock |-> 0, move_number |-> 1],
     \* en passant that uncovers a check (test_en_passant): 8/8/8/8/k2Pp2Q/8/8/3K4 b - d3 0 1
     [board_desc |-> <<"8","/","8","/","8","/","8","/","k","2","P","p","2","Q","/","8","/","8","/","3","K","4">>,
      active |-> "b", castling |-> <<"-">>, en_passant |-> "d3",
      fifty_move_clock |-> 0, move_number |-> 1],
     \* a pawn about to promote: 7k/8/8/8/8/8/p6K/7R b - - 0 1
     [board_desc |-> <<"7","k","/","8","/","8","/","8","/","8","/","8","/","p","6","K","/","7","R">>,
      active |-> "b", castling |-> <<"-">>, en_passant |-> "-",
      fifty_move_clock |-> 0, move_number |-> 1],
     \* a knight next to the white king: 8/8/8/8/8/5n2/8/k3K3 w - - 0 1
     [board_desc |-> <<"8","/","8","/","8","/","8","/","8","/","5","n","2","/","8","/","k","3","K","3">>,
      active |-> "w", castling |-> <<"-">>, en_passant |-> "-",
      fifty_move_clock |-> 0, move_number |-> 1],
     \* a knight next to the castling path: r3k3/8/8/8/8/6n1/8/4K2R w Kq - 0 1
     [board_desc |-> <<"r","3","k","3","/","8","/","8","/","8","/","8","/","6","n","1","/","8","/","4","K","2","R">>,
      active |-> "w", castling |-> <<"K","q">>, en_passant |-> "-",
      fifty_move_clock |-> 0, move_number |-> 1],
     \* a double push answered by castling: 4k3/p7/8/8/8/8/8/4K2R b K - 0 1
     [board_desc |-> <<"4","k","3","/","p","7","/","8","/","8","/","8","/","8","/","8","/","4","K","2","R">>,
      active |-> "b", castling |-> <<"K">>, en_passant |-> "-",
      fifty_move_clock |-> 0, move_number |-> 1],
     \* king and rook at home, the right already lost: 4k3/8/8/8/8/8/8/4K2R w - - 0 1
     [board_desc |-> <<"4","k","3","/","8","/","8","/","8","/","8","/","8","/","8","/","4","K","2","R">>,
      active |-> "w", castling |-> <<"-">>, en_passant |-> "-",
      fifty_move_clock |-> 0, move_number |-> 1],
     \* a knight beside an en passant capture to come: 8/8/8/k7/4p3/8/1N1P4/3K4 b - - 0 1
     [board_desc |-> <<"8","/","8","/","8","/","k","7","/","4","p","3","/","8","/","1","N","1","P","4","/","3","K","4">>,
      active |-> "b", castling |-> <<"-">>, en_passant |-> "-",
      fifty_move_clock |-> 0, move_number |-> 1],
     \* a pawn that can only promote (test_pawn_moves): 6b1/7P/8/8/8/8/r7/kr4BK w - - 0 1
     [board_desc |-> <<"6","b","1","/","7","P","/","8","/","8","/","8","/","8","/","r","7","/","k","r","4","B","K">>,
      active |-> "w", castling |-> <<"-">>, en_passant |-> "-",
      fifty_move_clock |-> 0, move_number |-> 1],
     \* a king with no flight square, a knight next to it: 8/8/4b3/8/8/8/2n5/K1k5 w - - 0 1
     [board_desc |-> <<"8","/","8","/","4","b","3","/","8","/","8","/","8","/","2","n","5","/","K","1","k","5">>,
      active |-> "w", castling |-> <<"-">>, en_passant |-> "-",
      fifty_move_clock |-> 0, move_number |-> 1],
     \* three bishops that reach one square, two on a file, two on a rank: 6k1/8/8/8/8/B7/8/B1B1K3 w - - 0 1
     [board_desc |-> <<"6","k","1","/","8","/","8","/","8","/","8","/","B","7","/","8","/","B","1","B","1","K","3">>,
      active |-> "w", castling |-> <<"-">>, en_passant |-> "-",
      fifty_move_clock |-> 0, move_number |-> 1]
  >>

\* the optional fields of the moves handed to is_legal_move / make_move
CaptureInputs == {None, "x"}

\* the Board make_move_copy returned, new_board: ops counts the calls of
\* make_move_copy and of make_move on its result (0: none yet, fields then
\* stands for no object), shared names the parts it shares with the
\* receiver, move is the move make_move_copy was given
NoCopy == [ops |-> 0, fields |-> Board(StartPositions[1]), shared |-> {}, move |-> NoMove]

\* the last call of a function of the module that is no method of the Board
\* under play, with its argument and what it returned (none yet)
NoCall == [of |-> "", argument |-> <<>>, value |-> <<>>]

\* the position string a Board was constructed from, where the run keeps
\* it, and what fen() then returned for that Board (the empty string: not
\* kept, not yet called)
NoExport == [string |-> <<>>, result |-> <<>>]

\* Board(StartPositions[i]) constructed, no move made, no copy taken
Start(i) ==
  /\ ~Board_raises(StartPositions[i])
  /\ LET B == Board(StartPositions[i])
     IN /\ board = B.board
        /\ active_player = B.active_player
        /\ en_passant = B.en_passant
        /\ available_castlings = B.available_castlings
        /\ fifty_move_clock = B.fifty_move_clock
        /\ move_number = B.move_number
  /\ last_move = NoMove
  /\ ply = 0
  /\ new_board = NoCopy
  /\ exported = NoExport
  /\ returned = NoCall

Init == \E i \in 1..Len(StartPositions) : Start(i)

\* the fields of the Board under play become those of B
Becomes(B) ==
  /\ board' = B.board
  /\ active_player' = B.active_player
  /\ en_passant' = B.en_passant
  /\ available_castlings' = B.available_castlings
  /\ fifty_move_clock' = B.fifty_move_clock
  /\ move_number' = B.move_number

\* the Board under play left as B by make_move(move); a Board that shares
\* parts with it follows
Applied(move, B) ==
  /\ Becomes(B)
  /\ last_move' = move
  /\ ply' = ply + 1
  /\ new_board' = [new_board EXCEPT !.fields = follow(@, new_board.shared, B)]
  /\ UNCHANGED <<exported, returned>>

\* board.make_move(move), the Board mutated in place
Apply(move) == Applied(move, make_move(Cur, move))

\* the piece letter of a move of the piece on square s (None for a pawn)
PieceLetter(s) == IF upper(board[s]) = "P" THEN None ELSE upper(board[s])

\* make_move of a castling move that is_legal_move accepted
Castle ==
  /\ ply < MaxPly
  /\ \E i \in 1..Len(CASTLINGS) :
       /\ is_legal_move(Cur, CastlingMove(CASTLINGS[i]))
       /\ Apply(CastlingMove(CASTLINGS[i]))

\* the promotion suffixes a move of the piece on src may carry: the notation
\* grammar of parse_move has a promotion only where it has no piece letter
PromotionInputs(src) ==
  IF PieceLetter(src) = None THEN {None, "R", "N", "B", "Q", "K"} ELSE {None}

\* make_move of a non-castling move that is_legal_move accepted; the move
\* names a piece of the active player by its letter and its source square.
\* (is_legal_move answers False unless src -> dest is pseudo-legal; asking
\* that first only spares the enumeration of the optional fields.)
MakeMove ==
  /\ ply < MaxPly
  /\ \E src \in Squares :
       /\ get_piece_owner(board[src]) = active_player
       /\ \E dest \in Squares :
            /\ is_pseudo_legal(Cur, src, dest)
            /\ \E capture \in CaptureInputs, promotion \in PromotionInputs(src) :
                 LET move == Move(None, capture, PieceLetter(src), square_name(src),
                                  square_name(dest), promotion)
                 IN /\ is_legal_move(Cur, move)
                    /\ Apply(move)

Next == Castle \/ MakeMove

Spec == Init /\ [][Next]_vars

\* the bound on the plies counts the calls on either Board
OpsLeft == ply + new_board.ops < MaxPly

\* the receiver and the Board make_move_copy made of it, left as the values
\* Receiver and Made
CopyApplied(move, Receiver, Made, shared) ==
  /\ Becomes(Receiver)
  /\ new_board' = [ops |-> new_board.ops + 1, fields |-> Made, shared |-> shared,
                   move |-> move]
  /\ UNCHANGED <<last_move, ply, exported, returned>>

\* make_move_copy: make_move runs on the copy; what the copy shares with
\* the receiver changes in the receiver too
CopyMade(move, C, Made) == CopyApplied(move, follow(Cur, C.shared, Made), Made, C.shared)

\* new_board = board.make_move_copy(move), for a move is_legal_move accepted
MakeMoveCopy ==
  /\ OpsLeft
  /\ new_board.ops = 0
  /\ \E move \in get_all_legal_moves(Cur) :
       CopyMade(move, deepcopy(Cur), make_move_copy(Cur, move))

\* make_move on the Board make_move_copy returned, left as Made
CopyMoved(Made) ==
  CopyApplied(new_board.move, follow(Cur, new_board.shared, Made), Made, new_board.shared)

\* new_board.make_move(move), for a move new_board.is_legal_move accepted
CopyMakeMove ==
  /\ OpsLeft
  /\ new_board.ops > 0
  /\ \E move \in get_all_legal_moves(new_board.fields) :
       CopyMoved(make_move(new_board.fields, move))

\* board.make_move(move) on the receiver once a copy of it is about, for a
\* move is_legal_move accepted
ReceiverMakeMove ==
  /\ new_board.ops > 0
  /\ OpsLeft
  /\ \E move \in get_all_legal_moves(Cur) : Apply(move)

CopyNext == MakeMoveCopy \/ CopyMakeMove \/ ReceiverMakeMove

\* the positions the copies are taken of: those whose moves change the
\* castling rights, the en passant square, or put a new piece on the board
CopyStarts == {1, 2, 5, 6, 7, 13}

CopyInit == \E i \in CopyStarts : Start(i)

CopySpec == CopyInit /\ [][CopyNext]_vars

\* the positions whose legal moves are put in canonical form: a castling,
\* an en passant capture, promotions with and without capture, pieces of one
\* kind that reach the same square
CanonStarts == {1, 5, 13, 15}

CanonInit == \E i \in CanonStarts : Start(i)

CanonSpec == CanonInit /\ [][Next]_vars


\* ------------------------------------------------ position strings
\* The piece placements of the position strings handed to Board()
Placements ==
  { \* both sides with king and rooks at home
    <<"r","3","k","2","r","/","8","/","8","/","8","/","8","/","8","/","8","/","R","3","K","2","R">>,
    \* pawns beside each other (test_en_passant)
    <<"k","6","K","/","8","/","8","/","6","p","P","/","8","/","8","/","4","P","3","/","8">>,
    \* two kings
    <<"8","/","8","/","8","/","8","/","8","/","8","/","8","/","k","6","K">>,
    \* the same, the empty eighth rank written as two runs of four
    <<"4","4","/","8","/","8","/","8","/","8","/","8","/","8","/","k","6","K">>,
    \* the default of Board()
    <<"r","n","b","q","k","b","n","r","/","p","p","p","p","p","p","p","p","/","8","/","8","/","8","/","8","/","P","P","P","P","P","P","P","P","/","R","N","B","Q","K","B","N","R">> }

\* the castling fields: '-', every subset of KQkq in that order, and one
\* out of order
CastlingFields ==
  { <<"-">>,
    <<"K">>, <<"Q">>, <<"k">>,
    <<"q">>, <<"K","Q">>, <<"K","k">>,
    <<"K","q">>, <<"Q","k">>, <<"Q","q">>,
    <<"k","q">>, <<"K","Q","k">>, <<"K","Q","q">>,
    <<"K","k","q">>, <<"Q","k","q">>, <<"K","Q","k","q">>,
    <<"q","K">> }

\* the en passant fields
EnPassantFields == {<<"-">>, <<"e","3">>, <<"g","6">>}

\* the counter fields, one of them with a leading zero
ClockFields == {<<"0">>, <<"1","0">>, <<"0","5">>}
MoveNumberFields == {<<"1">>, <<"2","0">>}

\* the position strings Board() is constructed from
PositionStrings ==
  {sep_join(" ", <<p, <<a>>, c, e, h, m>>) :
     p \in Placements, a \in {"w", "b"}, c \in CastlingFields, e \in EnPassantFields,
     h \in ClockFields, m \in MoveNumberFields}

\* board = Board(s) for a position string s, kept for the round trip
FenInit ==
  \E s \in PositionStrings :
     /\ ~Board_of_string_raises(s)
     /\ LET B == Board_of_string(s)
        IN /\ board = B.board
           /\ active_player = B.active_player
           /\ en_passant = B.en_passant
           /\ available_castlings = B.available_castlings
           /\ fifty_move_clock = B.fifty_move_clock
           /\ move_number = B.move_number
     /\ last_move = NoMove
     /\ ply = 0
     /\ new_board = NoCopy
     /\ exported = [string |-> s, result |-> <<>>]
     /\ returned = NoCall

\* board.fen() of the Board just constructed
Fen ==
  /\ exported.string # <<>>
  /\ exported.result = <<>>
  /\ exported' = [exported EXCEPT !.result = fen(Cur)]
  /\ UNCHANGED <<board, active_player, en_passant, available_castlings,
                 fifty_move_clock, move_number, last_move, ply, new_board, returned>>

FenSpec == FenInit /\ [][Fen]_vars


\* ------------------------------------------------------- notations
\* the longest notation handed to parse_move
MaxNotation == 5

\* the characters of the notations: a file, a rank, the capture mark, a
\* piece letter, the two characters of a castling, and a newline
NotationChars == {"e", "4", "x", "N", "0", "-", "\n"}

\* the strings of at most n of these characters
RECURSIVE StringsUpTo(_)
StringsUpTo(n) ==
  IF n = 0 THEN {<<>>}
  ELSE StringsUpTo(n - 1)
       \cup {Append(cs, c) : cs \in {x \in StringsUpTo(n - 1) : Len(x) = n - 1},
                             c \in NotationChars}

\* move = parse_move(move_notation)
ParseMove ==
  /\ returned = NoCall
  /\ \E cs \in StringsUpTo(MaxNotation) :
        /\ ~parse_move_raises(cs)
        /\ returned' = [of |-> "parse_move", argument |-> cs, value |-> parse_move(cs)]
  /\ UNCHANGED <<board, active_player, en_passant, available_castlings,
                 fifty_move_clock, move_number, last_move, ply, new_board, exported>>

ParseInit == Start(1)

ParseSpec == ParseInit /\ [][ParseMove]_vars


\* ------------------------------------------------------- pawn pushes
\* Positions with pawns on either rank a double push is written for, and
\* one in which a castling follows a double push
PawnPositions ==
  { \* pawns on the home rank and on the owner's back rank, White to move: p3k3/4p3/8/8/8/8/3P4/P3K3 w - - 0 1
    <<"p","3","k","3","/","4","p","3","/","8","/","8","/","8","/","8","/","3","P","4","/","P","3","K","3"," ","w"," ","-"," ","-"," ","0"," ","1">>,
    \* the same, Black to move: p3k3/4p3/8/8/8/8/3P4/P3K3 b - - 0 1
    <<"p","3","k","3","/","4","p","3","/","8","/","8","/","8","/","8","/","3","P","4","/","P","3","K","3"," ","b"," ","-"," ","-"," ","0"," ","1">>,
    \* pawns with the square before them or the one behind it taken: 4k3/8/8/8/8/b2p4/3P3r/P3K2P w - - 0 1
    <<"4","k","3","/","8","/","8","/","8","/","8","/","b","2","p","4","/","3","P","3","r","/","P","3","K","2","P"," ","w"," ","-"," ","-"," ","0"," ","1">>,
    \* two pawns side by side on their home rank, the other side free to castle: 4k3/pp6/8/8/8/8/8/4K2R b K - 0 1
    <<"4","k","3","/","p","p","6","/","8","/","8","/","8","/","8","/","8","/","4","K","2","R"," ","b"," ","K"," ","-"," ","0"," ","1">> }

PawnInit ==
  \E s \in PawnPositions :
     /\ ~Board_of_string_raises(s)
     /\ LET B == Board_of_string(s)
        IN /\ board = B.board
           /\ active_player = B.active_player
           /\ en_passant = B.en_passant
           /\ available_castlings = B.available_castlings
           /\ fifty_move_clock = B.fifty_move_clock
           /\ move_number = B.move_number
     /\ last_move = NoMove
     /\ ply = 0
     /\ new_board = NoCopy
     /\ exported = NoExport
     /\ returned = NoCall

PawnSpec == PawnInit /\ [][Next]_vars


\* ------------------------------------------------- the rules, stated apart
\* The relations the claims speak of, written from their wording and not
\* from the engine: which squares a piece attacks, and what follows.

\* the squares strictly between s and t on a common rank, file or diagonal
Between(s, t) ==
  {SquareFR(file(s) + k * sgn(file(t) - file(s)), rank(s) + k * sgn(rank(t) - rank(s))) :
     k \in 1..(dist(s, t) - 1)}

OnLine(s, t) == s # t /\ (file(s) = file(t) \/ rank(s) = rank(t))
OnDiagonal(s, t) == s # t /\ Abs(file(s) - file(t)) = Abs(rank(s) - rank(t))
Unobstructed(b, s, t) == \A x \in Between(s, t) : b[x] = "."
LJump(s, t) ==
  <<Abs(file(s) - file(t)), Abs(rank(s) - rank(t))>> \in {<<1, 2>>, <<2, 1>>}

\* the piece on s attacks square t on board b: king adjacency, knight
\* L-jumps, pawn forward diagonals, unobstructed rook, bishop and queen lines
Attacks(b, s, t) ==
  CASE upper(b[s]) = "K" -> dist(s, t) = 1
    [] upper(b[s]) = "N" -> LJump(s, t)
    [] upper(b[s]) = "P" ->
         /\ rank(t) - rank(s) = (IF b[s] = "P" THEN 1 ELSE -1)
         /\ Abs(file(t) - file(s)) = 1
    [] upper(b[s]) = "R" -> OnLine(s, t) /\ Unobstructed(b, s, t)
    [] upper(b[s]) = "B" -> OnDiagonal(s, t) /\ Unobstructed(b, s, t)
    [] upper(b[s]) = "Q" -> (OnLine(s, t) \/ OnDiagonal(s, t)) /\ Unobstructed(b, s, t)
    [] OTHER -> FALSE

\* some piece of player attacks square t
AttackedBy(b, t, player) ==
  \E s \in Squares : get_piece_owner(b[s]) = player /\ Attacks(b, s, t)

\* the square of player's king (the first, as the engine looks it up)
KingSquare(b, player) ==
  CHOOSE s \in Squares :
     /\ b[s] = format_piece("K", player)
     /\ \A x \in 0..(s - 1) : b[x] # format_piece("K", player)

\* the board with the piece on s put on t
StepTo(b, s, t) == [x \in Squares |-> IF x = t THEN b[s] ELSE IF x = s THEN "." ELSE b[x]]

\* the rank a player's pieces start on
HomeRank(player) == IF player = WHITE THEN 0 ELSE 7

\* the squares a rook, bishop or queen on s reaches along its lines: every
\* square up to the first occupied one, that one only if it holds an enemy
RayDests(b, s) ==
  {t \in Squares :
     /\ \/ upper(b[s]) \in {"R", "Q"} /\ OnLine(s, t)
        \/ upper(b[s]) \in {"B", "Q"} /\ OnDiagonal(s, t)
     /\ Unobstructed(b, s, t)
     /\ get_piece_owner(b[t]) # get_piece_owner(b[s])}

\* the board after the pawn on s has taken en passant on target: the pawn
\* stands on target, the pawn it passed (on the file of target, the rank of
\* s) is gone
AfterEnPassant(b, s, target) ==
  [x \in Squares |-> IF x = target THEN b[s]
                     ELSE IF x = s \/ x = SquareFR(file(target), rank(s)) THEN "."
                     ELSE b[x]]

\* the notation spelling a piece letter, a source, a capture mark, a
\* destination square and a suffix, each of the first three and the last
\* possibly absent (None; the source is given by its characters)
Notation(letter, source, capture, dest, suffix) ==
  (IF letter = None THEN <<>> ELSE <<letter>>)
  \o source
  \o (IF capture = None THEN <<>> ELSE <<capture>>)
  \o chars(square_name(dest))
  \o (IF suffix = None THEN <<>> ELSE <<suffix>>)

\* the suffixes a notation is tried with
SuffixInputs == {None, "R", "N", "B", "Q", "K"}

\* ------------------------------------------------------------------ claims

\* C1: in every position reached by make_move of moves that is_legal_move
\* accepted, is_in_check(side that just moved) is false.
C1_MoverNotInCheck ==
  ply > 0 => ~is_in_check(Cur, get_opponent(active_player))

\* C2: for a knight of the active player on s, legal_moves(s) is exactly the
\* set of on-board L-jumps from s that hold no friendly piece and whose
\* simulated move leaves the mover's king out of check.
C2_KnightMoves ==
  \A s \in Squares :
     board[s] = format_piece("N", active_player) =>
       legal_moves(Cur, s) =
         {d \in Squares :
            /\ LJump(s, d)
            /\ get_piece_owner(board[d]) # active_player
            /\ ~is_in_check(make_move_copy(Cur, Move(None, None, "N", square_name(s),
                                                     square_name(d), None)),
                            active_player)}

\* C3: is_in_check(p) is true iff at least one piece of p's opponent
\* threatens the square of p's king (king adjacency, knight L-jumps, pawn
\* forward diagonals, unobstructed rook, bishop and queen lines).
C3_CheckIffKingAttacked ==
  \A p \in {WHITE, BLACK} :
     is_in_check(Cur, p) <=> AttackedBy(board, KingSquare(board, p), get_opponent(p))

\* C4: for every square src holding a piece of the active player,
\* legal_moves(src) is exactly the set of pseudo-legal destinations whose
\* simulated move (make_move_copy) leaves the mover's king out of check; and
\* no legal destination of a king is attacked by an enemy piece (an enemy
\* king next to it included) once the king stands on it.
C4_LegalMovesExact ==
  \A s \in Squares :
     get_piece_owner(board[s]) = active_player =>
       /\ legal_moves(Cur, s) =
            {d \in Squares :
               /\ is_pseudo_legal(Cur, s, d)
               /\ ~is_in_check(make_move_copy(Cur, Move(None, None, PieceLetter(s),
                                                        square_name(s), square_name(d), None)),
                               active_player)}
       /\ upper(board[s]) = "K" =>
            \A d \in legal_moves(Cur, s) :
               ~AttackedBy(StepTo(board, s, d), d, get_opponent(active_player))

\* C5: for a rook, bishop or queen of the active player, legal_moves gives,
\* along each of its directions, the consecutive empty squares up to the
\* first occupied square, that square included iff it holds an enemy piece,
\* and nothing beyond it -- less the destinations the own-king-safety filter
\* of legal_moves rejects.
C5_SlidingRays ==
  \A s \in Squares :
     (get_piece_owner(board[s]) = active_player /\ upper(board[s]) \in {"R", "B", "Q"}) =>
       legal_moves(Cur, s) =
         {d \in RayDests(board, s) :
            is_in_legal_state(make_move_copy(Cur, Move(None, None, PieceLetter(s),
                                                       square_name(s), square_name(d), None)))}

\* C5 happens: the white rook on e3 runs west up to the black queen on c3,
\* which it may take, and north up to its own bishop on e5, which it may not.
C5_Witness ==
  /\ active_player = WHITE
  /\ board[Square("e3")] = "R" /\ board[Square("c3")] = "q" /\ board[Square("e5")] = "B"
  /\ {Square("d3"), Square("c3"), Square("e4")} \subseteq legal_moves(Cur, Square("e3"))
  /\ legal_moves(Cur, Square("e3")) \cap {Square("b3"), Square("a3"), Square("e5"), Square("e6")} = {}

\* C6: is_legal_move of a castling move is true iff the active player is not
\* in check, neither the square the king passes nor the square it lands on
\* is attacked by the opponent, the castling right of that colour and side
\* is set, and every square strictly between the king and the tracked rook
\* square is empty.
C6_CastlingLegalIff ==
  \A i \in 1..Len(CASTLINGS) :
     LET kingside == CASTLINGS[i] = "0-0"
         side == format_piece(IF kingside THEN "K" ELSE "Q", active_player)
         opponent == get_opponent(active_player)
         king == KingSquare(board, active_player)
     IN is_legal_move(Cur, CastlingMove(CASTLINGS[i])) <=>
          /\ ~AttackedBy(board, king, opponent)
          /\ ~AttackedBy(board, SquareFR(IF kingside THEN 5 ELSE 3, HomeRank(active_player)), opponent)
          /\ ~AttackedBy(board, SquareFR(IF kingside THEN 6 ELSE 2, HomeRank(active_player)), opponent)
          /\ available_castlings[side] # None
          /\ Unobstructed(board, king,
                          SquareFR(IndexOf(FILES, lower(available_castlings[side])),
                                   HomeRank(active_player)))

\* the position the example of C7 ends in: r3k3/8/8/8/8/8/8/5RK1 b q - 1 1
CastledPosition ==
  [board_desc |-> <<"r","3","k","3","/","8","/","8","/","8","/","8","/","8","/","8","/","5","R","K","1">>,
   active |-> "b", castling |-> <<"q">>, en_passant |-> "-",
   fifty_move_clock |-> 1, move_number |-> 1]

\* one call of make_move, seen from the claim of C7
C7_CastlingStep ==
  LET mover == active_player
      kingside == last_move'.castling = "0-0"
      side == format_piece(IF kingside THEN "K" ELSE "Q", mover)
      king_from == KingSquare(board, mover)
      rook_from == SquareFR(IndexOf(FILES, lower(available_castlings[side])), HomeRank(mover))
  IN last_move'.castling # None =>
       /\ board'[SquareFR(IF kingside THEN 6 ELSE 2, HomeRank(mover))] = format_piece("K", mover)
       /\ board'[SquareFR(IF kingside THEN 5 ELSE 3, HomeRank(mover))] = format_piece("R", mover)
       /\ board'[king_from] = "."
       /\ board'[rook_from] = "."
       /\ \A c \in {"K", "Q"} :
            /\ available_castlings'[format_piece(c, mover)] = None
            /\ available_castlings'[format_piece(c, get_opponent(mover))]
                 = available_castlings[format_piece(c, get_opponent(mover))]
       /\ fifty_move_clock' = fifty_move_clock + 1
       /\ active_player' = get_opponent(mover)
       /\ (Cur = Board(StartPositions[1]) /\ kingside) => Cur' = Board(CastledPosition)

\* C7: make_move of a legal castling move puts the mover's king on the g-file
\* (0-0) or c-file (0-0-0) square and a rook of the mover on the f-file or
\* d-file square of the mover's back rank, empties the king's and the rook's
\* origin squares, clears both castling rights of the mover, leaves the
\* opponent's rights unchanged, adds exactly 1 to the half-move clock and
\* passes the turn; from r3k3/8/8/8/8/8/8/4K2R w Kq - 0 1 kingside castling
\* yields r3k3/8/8/8/8/8/8/5RK1 b q - 1 1.
C7_Castling == [][C7_CastlingStep]_vars

\* C7 happens: white has castled kingside in the example position
C7_Witness ==
  /\ last_move.castling = "0-0"
  /\ Cur = Board(CastledPosition)

\* castling on a side whose right is cleared is illegal for the player to move
NoCastlingOnCleared ==
  \A c \in {"K", "Q"} :
     available_castlings[format_piece(c, active_player)] = None =>
       ~is_legal_move(Cur, CastlingMove(IF c = "K" THEN "0-0" ELSE "0-0-0"))

\* one call of make_move, seen from the claim of C8
C8_RevocationStep ==
  LET mover == active_player
      move == last_move'
      src == Square(move.src)
      side == format_piece(IF file(src) = 7 THEN "K" ELSE "Q", mover)
  IN /\ (move.castling = None /\ move.piece = "K") =>
          \A c \in {"K", "Q"} : available_castlings'[format_piece(c, mover)] = None
     /\ (move.castling = None /\ move.piece = "R"
           /\ rank(src) = HomeRank(mover) /\ file(src) \in {0, 7}) =>
          \A c \in DOMAIN available_castlings :
             available_castlings'[c] = IF c = side THEN None ELSE available_castlings[c]
     /\ \A c \in DOMAIN available_castlings :
          available_castlings[c] = None => available_castlings'[c] = None

\* C8: after make_move of a non-castling king move both castling rights of
\* the mover are cleared; after make_move of a rook move from the mover's
\* back-rank square on a tracked rook file exactly that side's right of the
\* mover is cleared and every other right is unchanged; a cleared right is
\* never set again, and castling on a cleared side is illegal in every
\* position, king and rook on their squares or not.
C8_Revocation == [][C8_RevocationStep]_vars /\ []NoCastlingOnCleared

\* C8 happens: the white rook has left h1, the kingside right is gone, the
\* queenside right stands
C8_Witness ==
  /\ last_move.piece = "R" /\ last_move.src = "h1"
  /\ active_player = BLACK
  /\ available_castlings["K"] = None
  /\ available_castlings["Q"] = "A"

\* C9: in every position produced by make_move the en passant target is set
\* iff the ply just applied was a pawn double push, and is then the square
\* that pawn skipped; after any other ply, a castling move included, there
\* is no en passant target.
C9_EnPassantTarget ==
  ply > 0 =>
    IF /\ last_move.castling = None
       /\ last_move.piece = None
       /\ Abs(rank(Square(last_move.src)) - rank(Square(last_move.dest))) = 2
    THEN en_passant = SquareFR(file(Square(last_move.src)),
                               (rank(Square(last_move.src)) + rank(Square(last_move.dest))) \div 2)
    ELSE en_passant = NoSquare

\* C10: an en passant capture is illegal whenever the position obtained by
\* moving the capturing pawn to the en passant target and removing the
\* captured pawn leaves the mover's king in check.
C10_EnPassantLeavesCheck ==
  en_passant # NoSquare =>
    \A s \in Squares :
       (board[s] = format_piece("P", active_player) /\ Attacks(board, s, en_passant)) =>
         (AttackedBy(AfterEnPassant(board, s, en_passant),
                     KingSquare(board, active_player), get_opponent(active_player)) =>
            \A capture \in CaptureInputs, src \in {square_name(s), FILES[file(s) + 1]} :
               ~is_legal_move(Cur, Move(None, capture, None, src, square_name(en_passant), None)))

\* C11: in every position reached from a position with exactly one king per
\* colour by moves that is_legal_move accepted, the board holds exactly one
\* white king and exactly one black king.
C11_OneKingEach ==
  /\ Cardinality({s \in Squares : board[s] = "K"}) = 1
  /\ Cardinality({s \in Squares : board[s] = "k"}) = 1

\* C12: get_all_legal_moves holds, for each legal pawn move onto the last
\* rank, exactly the four moves promoting to R, B, N and Q and no move
\* without a promotion; no other move of the set carries a promotion piece;
\* for 6b1/7P/8/8/8/8/r7/kr4BK w - - 0 1 the set is exactly the 8 moves of
\* the h7 pawn to h8 or g8 with each of R, B, N, Q.
C12_Promotions ==
  LET all == get_all_legal_moves(Cur)
      last == HomeRank(get_opponent(active_player))
  IN /\ \A s \in Squares, d \in Squares :
          (board[s] = format_piece("P", active_player) /\ rank(d) = last
             /\ d \in legal_moves(Cur, s)) =>
            {m \in all : m.src = square_name(s) /\ m.dest = square_name(d)}
              = {Move(None, None, None, square_name(s), square_name(d), p) :
                   p \in {"R", "B", "N", "Q"}}
     /\ \A m \in all :
          m.promotion # None =>
            /\ m.piece = None
            /\ board[Square(m.src)] = format_piece("P", active_player)
            /\ rank(Square(m.dest)) = last
     /\ Cur = Board(StartPositions[13]) =>
          all = {Move(None, None, None, "h7", d, p) : d \in {"h8", "g8"}, p \in {"R", "B", "N", "Q"}}

\* C12 happens: the position of the example, whose legal moves are 8
C12_Witness ==
  /\ Cur = Board(StartPositions[13])
  /\ Cardinality(get_all_legal_moves(Cur)) = 8

\* C13: a move carrying a promotion piece is accepted (parse_move returns a
\* non-empty move and is_legal_move returns true) only if it has no piece
\* letter, the promotion piece is one of R, N, B, Q, and it is a pawn move
\* landing on the mover's last rank.
C13_PromotionAccepted ==
  \A s \in {s \in Squares : get_piece_owner(board[s]) = active_player} :
     \A d \in Squares, letter \in {None, upper(board[s])},
        capture \in CaptureInputs, suffix \in SuffixInputs :
        LET move == parse_move(Notation(letter, chars(square_name(s)), capture, d, suffix))
        IN (move # NoMove /\ move.promotion # None /\ is_legal_move(Cur, move)) =>
             /\ move.piece = None
             /\ move.promotion \in {"R", "N", "B", "Q"}
             /\ board[s] = format_piece("P", active_player)
             /\ rank(d) = HomeRank(get_opponent(active_player))

\* C14: is_mated() is true iff the active player is in check and
\* get_all_legal_moves() is empty.
C14_MatedIff ==
  is_mated(Cur) <=>
    /\ AttackedBy(board, KingSquare(board, active_player), get_opponent(active_player))
    /\ get_all_legal_moves(Cur) = {}

\* C15: make_move of a move for which is_legal_move is false in the current
\* position ends in an error and never completes; this includes a move given
\* with a full source square that holds a piece of the named kind.
C15_IllegalMoveIsFatal ==
  /\ \A i \in 1..Len(CASTLINGS) :
        ~is_legal_move(Cur, CastlingMove(CASTLINGS[i])) =>
          make_move_raises(Cur, CastlingMove(CASTLINGS[i]))
  /\ \A s \in {s \in Squares : get_piece_owner(board[s]) = active_player} :
        \A d \in Squares :
           ~is_legal_move(Cur, Move(None, None, PieceLetter(s), square_name(s),
                                    square_name(d), None)) =>
             make_move_raises(Cur, Move(None, None, PieceLetter(s), square_name(s),
                                        square_name(d), None))

\* on a step, make_move_copy and every later make_move on either Board leave
\* the other Board as it was
C16_CopyStep ==
  /\ (new_board.ops = 0 /\ new_board'.ops = 1) =>
        /\ Cur' = Cur
        /\ new_board'.fields = make_move(Cur, new_board'.move)
  /\ (new_board.ops > 0 /\ new_board'.ops > new_board.ops) => Cur' = Cur
  /\ (new_board.ops > 0 /\ ply' > ply) => new_board'.fields = new_board.fields

\* C16: make_move_copy returns a board equal to what make_move makes of the
\* receiver and leaves the receiver's pieces, active player, en passant
\* square, castling rights and both counters as they were; a later make_move
\* on either of the two boards never changes the other.
C16_CopyIndependent == [][C16_CopyStep]_vars

\* a copy made by a move that took a castling right away, moved again, the
\* receiver still holding the right
C16_Witness ==
  /\ new_board.ops = 2
  /\ ply = 0
  /\ new_board.fields.available_castlings # available_castlings
  /\ new_board.fields.board # board

\* a source specifier (absent, a file, a rank or a square) fits square s
SourceFits(src, s) ==
  \/ src = None
  \/ src = square_name(s)
  \/ src = FILES[file(s) + 1]
  \/ src = RANKS[rank(s) + 1]

\* the piece of the active player on s may go to d: the step has the
\* piece's pattern and leaves no enemy piece attacking the mover's king
LegalStep(s, d) ==
  /\ is_pseudo_legal(Cur, s, d)
  /\ LET after == make_move_copy(Cur, Move(None, None, PieceLetter(s), square_name(s),
                                           square_name(d), None)).board
     IN ~AttackedBy(after, KingSquare(after, active_player), get_opponent(active_player))

\* the source squares a move specification matches: those holding the named
\* piece of the active player that fit its source and may go to its
\* destination
Matches(move) ==
  {s \in Squares : /\ board[s] = format_piece(Or(move.piece, "P"), active_player)
                   /\ SourceFits(move.src, s)
                   /\ LegalStep(s, Square(move.dest))}

\* the sources a notation for a move of the piece on s is tried with
SourceInputs(s) ==
  {<<>>, <<FILES[file(s) + 1]>>, <<RANKS[rank(s) + 1]>>, chars(square_name(s))}

\* C17: for every non-empty, non-castling move of parse_move whose
\* specification matches no source square of the active player, or more
\* than one, is_legal_move returns false and does not raise.
C17_AmbiguousIsIllegal ==
  \A s \in {s \in Squares : get_piece_owner(board[s]) = active_player} :
     \A d \in Squares, letter \in {PieceLetter(s), "B"},
        source \in SourceInputs(s), capture \in CaptureInputs :
        LET move == parse_move(Notation(letter, source, capture, d, None))
        IN (move # NoMove /\ move.castling = None /\ Cardinality(Matches(move)) # 1) =>
             /\ ~is_legal_move_raises(Cur, move)
             /\ ~is_legal_move(Cur, move)

\* the squares a rank description spells: one for a piece letter, the digit's
\* worth for a digit
RECURSIVE RankSum(_)
RankSum(r) ==
  IF r = <<>> THEN 0
  ELSE (IF Head(r) \in Range(RANKS) THEN IndexOf(RANKS, Head(r)) + 1 ELSE 1) + RankSum(Tail(r))

PieceLetters == {"R", "N", "B", "Q", "K", "P", "r", "n", "b", "q", "k", "p"}

\* a string of decimal digits, at least one
IsNumeral(ds) == ds # <<>> /\ \A i \in 1..Len(ds) : ds[i] \in Range(DIGITS)

\* a valid position string: eight ranks each summing to 8, active colour w or
\* b, castling a subset of KQkq in that order or '-', an en passant square
\* or '-', two non-negative integers
Valid(s) ==
  LET f == split(s, " ")
  IN /\ Len(f) = 6
     /\ Len(split(f[1], "/")) = 8
     /\ \A k \in 1..8 :
           /\ \A i \in 1..Len(split(f[1], "/")[k]) :
                 split(f[1], "/")[k][i] \in PieceLetters \cup Range(RANKS)
           /\ RankSum(split(f[1], "/")[k]) = 8
     /\ f[2] \in {<<"w">>, <<"b">>}
     /\ \/ f[3] = <<"-">>
        \/ /\ f[3] # <<>>
           /\ \A i \in 1..Len(f[3]) : f[3][i] \in {"K", "Q", "k", "q"}
           /\ \A i \in 1..(Len(f[3]) - 1) :
                 IndexOf(<<"K", "Q", "k", "q">>, f[3][i]) < IndexOf(<<"K", "Q", "k", "q">>, f[3][i + 1])
     /\ \/ f[4] = <<"-">>
        \/ Len(f[4]) = 2 /\ f[4][1] \in Range(FILES) /\ f[4][2] \in Range(RANKS)
     /\ IsNumeral(f[5])
     /\ IsNumeral(f[6])

\* every run of empty squares is written as one digit and no counter has a
\* leading zero
Canonical(s) ==
  LET f == split(s, " ")
  IN /\ \A i \in 1..(Len(f[1]) - 1) : ~(f[1][i] \in Range(RANKS) /\ f[1][i + 1] \in Range(RANKS))
     /\ \A k \in {5, 6} : Len(f[k]) = 1 \/ f[k][1] # "0"

\* C18 as stated: fen(Board(s)) == s for every valid position string s.
C18_RoundTrip ==
  (exported.result # <<>> /\ Valid(exported.string)) => exported.result = exported.string

\* C18, amended: fen(Board(s)) == s for every valid position string s that
\* writes each run of empty squares as one digit and its two counters
\* without leading zeros.
C18_RoundTripCanonical ==
  (exported.result # <<>> /\ Valid(exported.string) /\ Canonical(exported.string)) =>
     exported.result = exported.string

\* fen() called for a Board made from a string with castling rights on
\* either side, an en passant square and a counter of two digits
C18_Witness ==
  /\ exported.result # <<>>
  /\ Valid(exported.string)
  /\ Canonical(exported.string)
  /\ split(exported.string, " ")[3] = <<"Q", "k">>
  /\ split(exported.string, " ")[4] = <<"g", "6">>
  /\ split(exported.string, " ")[5] = <<"1", "0">>

\* C19: for every legal move m of a position,
\* get_move_canonical_form(get_move_canonical_form(m)) equals
\* get_move_canonical_form(m): neither the source specifier nor the capture
\* marker of a canonical move changes when it is canonicalised again.
C19_CanonicalIdempotent ==
  \A m \in get_all_legal_moves(Cur) :
     LET canonical_move == get_move_canonical_form(Cur, m)
     IN /\ ~canonical_form_raises(Cur, m)
        /\ ~canonical_form_raises(Cur, canonical_move)
        /\ get_move_canonical_form(Cur, canonical_move) = canonical_move


\* a position with a pawn capture among its legal moves: its canonical form
\* has the capture marker set and the pawn's file for a source, and stays
\* so when canonicalised again
C19_Witness ==
  \E m \in get_all_legal_moves(Cur) :
     /\ m.piece = None
     /\ m.capture = None
     /\ get_move_canonical_form(Cur, m).capture = "x"
     /\ get_move_canonical_form(Cur, m).src \in Range(FILES)
     /\ get_move_canonical_form(Cur, get_move_canonical_form(Cur, m)).src \in Range(FILES)

\* C20: for any two distinct members of get_all_legal_moves() of one
\* position, the notation strings of their canonical forms differ.
\* (No two moves share a notation string: there are as many strings as moves.)
C20_CanonicalDistinct ==
  LET moves == get_all_legal_moves(Cur)
  IN Cardinality({repr(get_move_canonical_form(Cur, m)) : m \in moves}) = Cardinality(moves)

\* a position in which two pieces of one kind on one file reach the same
\* square and their canonical forms tell them apart by the rank
C20_Witness ==
  \E m1, m2 \in get_all_legal_moves(Cur) :
     /\ m1 # m2
     /\ m1.piece = m2.piece
     /\ m1.dest = m2.dest
     /\ chars(m1.src)[1] = chars(m2.src)[1]
     /\ repr(get_move_canonical_form(Cur, m1)) # repr(get_move_canonical_form(Cur, m2))
     /\ get_move_canonical_form(Cur, m2).src \in Range(RANKS)


\* the notation grammar of parse_move, read forwards:
\*   <normal> ::= (<piece>)? (<src>)? ("x")? <square>
\*   <promotion> ::= (<src>)? ("x")? <square> <piece>
IsSquareName(cs) == Len(cs) = 2 /\ cs[1] \in Range(FILES) /\ cs[2] \in Range(RANKS)

IsSource(cs) ==
  \/ Len(cs) = 1 /\ cs[1] \in Range(FILES) \cup Range(RANKS)
  \/ IsSquareName(cs)

IsCommon(cs) ==
  \E i \in 0..2, j \in 0..1 :
     /\ i + j + 2 = Len(cs)
     /\ i > 0 => IsSource(SubSeq(cs, 1, i))
     /\ j = 1 => cs[i + 1] = "x"
     /\ IsSquareName(SubSeq(cs, i + j + 1, Len(cs)))

InGrammar(cs) ==
  \/ cs \in {<<"0", "-", "0">>, <<"0", "-", "0", "-", "0">>}
  \/ IsCommon(cs)
  \/ Len(cs) >= 1 /\ cs[1] \in Range(PIECES) /\ IsCommon(SubSeq(cs, 2, Len(cs)))
  \/ Len(cs) >= 1 /\ cs[Len(cs)] \in Range(PIECES) /\ IsCommon(SubSeq(cs, 1, Len(cs) - 1))

\* C21: parse_move raises on no input string; a string outside the notation
\* grammar yields the empty move; and bool(move) is true iff the move's
\* castling field or its destination field is set.
C21_ParseTotal ==
  returned.of = "parse_move" =>
     /\ ~parse_move_raises(returned.argument)
     /\ ~InGrammar(returned.argument) => returned.value = NoMove
     /\ move_bool(returned.value) <=>
          (returned.value.castling # None \/ returned.value.dest # None)


\* a make_move step passes the turn to the other player and counts the move
\* number up after Black's move alone
C22_TurnStep ==
  ply' = ply + 1 =>
     /\ active_player' = get_opponent(active_player)
     /\ active_player' # active_player
     /\ move_number' = move_number + (IF active_player = BLACK THEN 1 ELSE 0)

\* C22: every make_move, castling or not, flips the active player exactly
\* once, and the full-move number increases by exactly 1 iff the move was
\* made by Black and is otherwise unchanged.
C22_TurnAndMoveNumber == [][C22_TurnStep]_vars

\* White has moved and Black has castled: White is to move in move 2
C22_Witness ==
  /\ ply = 2
  /\ last_move.castling # None
  /\ active_player = WHITE
  /\ move_number = 2


\* the rank a player's pawns start on
PawnHomeRank(player) == IF player = WHITE THEN 1 ELSE 6

\* the pawn moves of two squares along a file that the position allows: those
\* __is_pseudo_legal accepts, and those legal_moves generates for the pawns of
\* the active player
TwoSquarePawnMoves ==
  {sd \in Squares \X Squares :
     /\ upper(board[sd[1]]) = "P"
     /\ Abs(rank(sd[2]) - rank(sd[1])) = 2
     /\ \/ is_pseudo_legal(Cur, sd[1], sd[2])
        \/ /\ get_piece_owner(board[sd[1]]) = active_player
           /\ sd[2] \in legal_moves(Cur, sd[1])}

\* the square a pawn's move of two squares passes over
Intervening(s, d) == SquareFR(file(s), (rank(s) + rank(d)) \div 2)

\* C23 as stated: a pawn double push is pseudo-legal only when the pawn
\* stands on its home rank (rank 2 for White, rank 7 for Black) and both
\* the intervening square and the destination square are empty; from any
\* other rank, the owner's back rank included, no two-square pawn move is
\* generated.
C23_DoublePush ==
  \A sd \in TwoSquarePawnMoves :
     /\ rank(sd[1]) = PawnHomeRank(get_piece_owner(board[sd[1]]))
     /\ file(sd[2]) = file(sd[1])
     /\ board[Intervening(sd[1], sd[2])] = "."
     /\ board[sd[2]] = "."

\* C23, amended: a pawn double push is pseudo-legal, and generated, only
\* when the pawn stands on its home rank or on its owner's back rank and
\* both the intervening square and the destination square are empty.
C23_DoublePushFromEitherRank ==
  \A sd \in TwoSquarePawnMoves :
     /\ rank(sd[1]) \in {PawnHomeRank(get_piece_owner(board[sd[1]])),
                         HomeRank(get_piece_owner(board[sd[1]]))}
     /\ file(sd[2]) = file(sd[1])
     /\ rank(sd[2]) - rank(sd[1]) = 2 * PUSH_DIRECTION(get_piece_owner(board[sd[1]]))
     /\ board[Intervening(sd[1], sd[2])] = "."
     /\ board[sd[2]] = "."

\* a position with one pawn that may be pushed two squares and one that
\* stands on a rank for it but has the square before it, or the one behind
\* that, taken
C23_Witness ==
  /\ TwoSquarePawnMoves # {}
  /\ \E s \in Squares :
        /\ board[s] = format_piece("P", active_player)
        /\ rank(s) \in {PawnHomeRank(active_player), HomeRank(active_player)}
        /\ \A sd \in TwoSquarePawnMoves : sd[1] # s


\* the last make_move pushed the pawn now on square p two squares ahead
JustDoublePushed(p) ==
  /\ last_move.castling = None
  /\ last_move.piece = None
  /\ last_move.dest = square_name(p)
  /\ last_move.src \in SquareNameSet
  /\ file(Square(last_move.src)) = file(p)
  /\ Abs(rank(Square(last_move.src)) - rank(p)) = 2

\* the pawn of the active player on s takes en passant on d: d is the en
\* passant target, an enemy pawn stands beside s on the file of d, (once a
\* move has been made) it is the pawn the last ply pushed two squares, and
\* the move removes it
TakesEnPassant(s, d) ==
  LET passed == SquareFR(file(d), rank(s))
  IN /\ d = en_passant
     /\ board[passed] = format_piece("P", get_opponent(active_player))
     /\ ply > 0 => JustDoublePushed(passed)
     /\ make_move_copy(Cur, Move(None, None, None, square_name(s), square_name(d),
                                 None)).board[passed] = "."

\* C24: in every position reached by legal play, a pawn move that changes
\* file is legal only if the destination holds an enemy piece or the move is
\* an en passant capture of an enemy pawn that made a double push on the
\* immediately preceding ply; a pawn never moves diagonally onto an empty
\* square without removing an enemy pawn.
C24_PawnCaptures ==
  \A s \in {s \in Squares : board[s] = format_piece("P", active_player)} :
     \A d \in legal_moves(Cur, s) :
        file(d) # file(s) =>
           \/ get_piece_owner(board[d]) = get_opponent(active_player)
           \/ TakesEnPassant(s, d)


\* ------------------------------------------------- the Square constructor
\* (the engine above keeps of a Square only its index; here the object is
\* built field by field as Square.__init__ builds it)

\* a construction that raises ValueError yields no Square
ValueError == [raised |-> "ValueError"]

\* ''.join((f, r)) in Square.SQUARE_NAMES, for a string given by its characters
in_SQUARE_NAMES(cs) ==
  Len(cs) = 2 /\ cs[1] \in Range(FILES) /\ cs[2] \in Range(RANKS)

\* str.lower of a string given by its characters
lower_string(cs) == [i \in DOMAIN cs |-> lower(cs[i])]

\* Square(square_name)
Square_of_name(cs) ==
  LET name == lower_string(cs)
  IN IF ~in_SQUARE_NAMES(name) THEN ValueError
     ELSE LET f == IndexOf(FILES, name[1])
              r == IndexOf(RANKS, name[2])
          IN [_square_name |-> name, _file |-> f, _rank |-> r,
              _square |-> r * 8 + f]

\* Square.SQUARE_NAMES[i] by its characters
SQUARE_NAMES_chars(i) == <<FILES[(i % 8) + 1], RANKS[(i \div 8) + 1]>>

\* Square(square_index)
Square_of_index(square_index) ==
  IF square_index \notin 0..(Len(SQUARE_NAMES) - 1) THEN ValueError
  ELSE LET name == SQUARE_NAMES_chars(square_index)
       IN [_square_name |-> name, _file |-> IndexOf(FILES, name[1]),
           _rank |-> IndexOf(RANKS, name[2]), _square |-> square_index]

Square_of_file_rank_file_major(f, r) ==
  IF ~valid_square(f, r) THEN ValueError
  ELSE [_square_name |-> SQUARE_NAMES_chars(f * 8 + r), _file |-> f,
        _rank |-> r, _square |-> f * 8 + r]

\* Square(file, rank)
Square_of_file_rank(f, r) ==
  IF ~valid_square(f, r) THEN ValueError
  ELSE [_square_name |-> SQUARE_NAMES_chars(r * 8 + f), _file |-> f,
        _rank |-> r, _square |-> r * 8 + f]

\* Square.__eq__ of two Squares
Square_eq(a, b) == a._square = b._square

\* Square.__hash__: the hash of the name; equal strings hash alike, and the
\* model takes the name itself for its hash
Square_hash(a) == a._square_name

\* the arguments tried: strings of at most three characters over file
\* letters in both cases, a letter that is no file, and digits in and out
\* of the ranks; indices and coordinates from below to above the board
SquareChars == {"a", "h", "A", "E", "k", "1", "8", "9", "0"}
MaxNameLen == 3
MaxIndex == 66
MaxCoordinate == 9

RECURSIVE NamesUpTo(_)
NamesUpTo(n) ==
  IF n = 0 THEN {<<>>}
  ELSE NamesUpTo(n - 1)
       \cup {Append(cs, c) : cs \in {x \in NamesUpTo(n - 1) : Len(x) = n - 1},
                             c \in SquareChars}

\* Square(name)
NewSquareOfName ==
  /\ returned = NoCall
  /\ \E cs \in NamesUpTo(MaxNameLen) :
        returned' = [of |-> "Square(name)", argument |-> cs,
                     value |-> Square_of_name(cs)]
  /\ UNCHANGED <<board, active_player, en_passant, available_castlings,
                 fifty_move_clock, move_number, last_move, ply, new_board, exported>>

\* Square(index)
NewSquareOfIndex ==
  /\ returned = NoCall
  /\ \E i \in (-3)..MaxIndex :
        returned' = [of |-> "Square(index)", argument |-> <<i>>,
                     value |-> Square_of_index(i)]
  /\ UNCHANGED <<board, active_player, en_passant, available_castlings,
                 fifty_move_clock, move_number, last_move, ply, new_board, exported>>

\* Square(file, rank)
NewSquareOfFileRank ==
  /\ returned = NoCall
  /\ \E f \in (-2)..MaxCoordinate, r \in (-2)..MaxCoordinate :
        returned' = [of |-> "Square(file, rank)", argument |-> <<f, r>>,
                     value |-> Square_of_file_rank(f, r)]
  /\ UNCHANGED <<board, active_player, en_passant, available_castlings,
                 fifty_move_clock, move_number, last_move, ply, new_board, exported>>

SquareInit == Start(1)

SquareNext == NewSquareOfName \/ NewSquareOfIndex \/ NewSquareOfFileRank

SquareSpec == SquareInit /\ [][SquareNext]_vars

\* a square name: a file letter followed by a rank digit
IsName(cs) == Len(cs) = 2 /\ cs[1] \in Range(FILES) /\ cs[2] \in Range(RANKS)

\* two Squares that denote the same square
SameSquare(a, b) ==
  /\ a # ValueError /\ b # ValueError
  /\ Square_eq(a, b)
  /\ Square_hash(a) = Square_hash(b)
  /\ a._square_name = b._square_name
  /\ a._square = b._square
  /\ a._file = b._file
  /\ a._rank = b._rank

\* whenever index = rank * 8 + file and name = file letter then rank digit,
\* the three constructions denote the same square
ConstructionsAgree ==
  \A f \in 0..7, r \in 0..7 :
     LET by_name == Square_of_name(<<FILES[f + 1], RANKS[r + 1]>>)
         by_index == Square_of_index(r * 8 + f)
         by_file_rank == Square_of_file_rank(f, r)
     IN /\ SameSquare(by_name, by_index)
        /\ SameSquare(by_index, by_file_rank)
        /\ by_index._square = r * 8 + f
        /\ by_index._file = f
        /\ by_index._rank = r
        /\ by_index._square_name = <<FILES[f + 1], RANKS[r + 1]>>

\* the construction just made is one of the agreeing three, or fails
ConstructedSquareAgrees ==
  returned.of \in {"Square(name)", "Square(index)", "Square(file, rank)"}
    /\ returned.value # ValueError =>
       LET v == returned.value
       IN /\ v._square = v._rank * 8 + v._file
          /\ v._square_name = <<FILES[v._file + 1], RANKS[v._rank + 1]>>
          /\ SameSquare(v, Square_of_name(v._square_name))
          /\ SameSquare(v, Square_of_index(v._square))
          /\ SameSquare(v, Square_of_file_rank(v._file, v._rank))

\* an index outside 0..63, and a file or rank outside 0..7, fail
OutsideFails ==
  /\ returned.of = "Square(index)" /\ returned.argument[1] \notin 0..63
        => returned.value = ValueError
  /\ returned.of = "Square(file, rank)"
       /\ (returned.argument[1] \notin 0..7 \/ returned.argument[2] \notin 0..7)
        => returned.value = ValueError

\* C25: Square(name), Square(index) and Square(file, rank) denote the same
\* square (equal, same hash, same name, index, file and rank) whenever
\* index = rank*8 + file and name = file letter followed by rank digit;
\* construction from an index outside 0..63 or a file or rank outside 0..7
\* or a string that is not a square name fails.
C25_SquareConstruction ==
  /\ ConstructionsAgree
  /\ ConstructedSquareAgrees
  /\ OutsideFails
  /\ returned.of = "Square(name)" /\ ~IsName(returned.argument)
        => returned.value = ValueError

\* C25 with the letter case of the file set aside: construction from a
\* string fails when the string, put in lower case, is not a square name.
C25_SquareConstructionAnyCase ==
  /\ ConstructionsAgree
  /\ ConstructedSquareAgrees
  /\ OutsideFails
  /\ returned.of = "Square(name)" /\ ~IsName(lower_string(returned.argument))
        => returned.value = ValueError

\* a square has been built from a name, and it is the square its index and
\* its coordinates build
C25_Witness ==
  /\ returned.of = "Square(name)"
  /\ returned.argument = <<"h", "8">>
  /\ returned.value # ValueError
  /\ returned.value._square = 63
  /\ SameSquare(returned.value, Square_of_file_rank(7, 7))


\* a make_move step of a non-castling move sets the half-move clock to 0
\* when a pawn moved or a piece was taken, and counts it up by 1 otherwise
C26_ClockStep ==
  ply' = ply + 1 /\ last_move'.castling = None =>
     fifty_move_clock' =
        IF last_move'.piece = None \/ board[Square(last_move'.dest)] # "."
        THEN 0
        ELSE fifty_move_clock + 1

\* C26: after make_move of a non-castling move, the half-move clock is 0 if
\* the move was a pawn move or a capture and is the previous value plus 1
\* otherwise (any king, queen, bishop, knight or rook move that captures
\* nothing advances it by exactly 1).
C26_HalfMoveClock == [][C26_ClockStep]_vars


\* a make_move step that takes en passant: the move is a pawn move onto the
\* en passant target from the next file, beside an enemy pawn that (once a
\* move has been made) the last ply pushed two squares. Afterwards the pawn
\* stands on the target, its origin and the square of the passed pawn are
\* empty, nothing else has changed, and the target is cleared
C27_EnPassantStep ==
  LET move == last_move'
      s == Square(move.src)
      d == Square(move.dest)
      passed == SquareFR(file(d), rank(s))
  IN (/\ ply' = ply + 1
      /\ move.castling = None
      /\ move.piece = None
      /\ d = en_passant
      /\ file(s) # file(d)
      /\ board[passed] = format_piece("P", get_opponent(active_player))
      /\ ply > 0 => JustDoublePushed(passed))
     => /\ board'[d] = format_piece("P", active_player)
        /\ board'[s] = "."
        /\ board'[passed] = "."
        /\ file(passed) = file(d)
        /\ passed = SquareAdd(d, <<0, -PUSH_DIRECTION(active_player)>>)
        /\ board' = AfterEnPassant(board, s, d)
        /\ en_passant' = NoSquare

\* C27: after make_move of a legal en passant capture, the capturing pawn
\* stands on the en passant target, its origin square is empty, and the
\* square of the enemy pawn that double-pushed (same file as the target, one
\* rank behind it from the capturer's view) is empty; the captured pawn is
\* removed before the en passant target is cleared.
C27_EnPassantCapture == [][C27_EnPassantStep]_vars

\* the white pawn of h5 has taken en passant on g6: g5 and h5 are empty
C27_Witness ==
  /\ ply = 1
  /\ last_move.piece = None /\ last_move.src = "h5" /\ last_move.dest = "g6"
  /\ board[Square("g6")] = "P"
  /\ board[Square("g5")] = "."
  /\ board[Square("h5")] = "."
  /\ en_passant = NoSquare


\* C28: for every legal move m of a reachable position, parse_move applied
\* to the notation string of get_move_canonical_form(m) returns a non-empty
\* move equal field for field to that canonical form, is_legal_move accepts
\* it, and make_move resolves it to the same source and destination squares
\* as m (and so leaves the same position).
C28_NotationRoundTrip ==
  \A m \in get_all_legal_moves(Cur) :
     LET canonical_move == get_move_canonical_form(Cur, m)
         parsed == parse_move(repr(canonical_move))
         resolved == disambiguate_move(Cur, parsed)
     IN /\ ~canonical_form_raises(Cur, m)
        /\ ~parse_move_raises(repr(canonical_move))
        /\ move_bool(parsed)
        /\ parsed = canonical_move
        /\ is_legal_move(Cur, parsed)
        /\ ~make_move_raises(Cur, parsed)
        /\ m.castling = None => resolved.src = m.src /\ resolved.dest = m.dest
        /\ make_move(Cur, parsed) = make_move(Cur, m)

\* a position with a capturing move of a piece whose canonical form names no
\* source, and one whose canonical form names a file: both strings come back
\* from parse_move as the moves they were and find their way to the source
C28_Witness ==
  /\ \E m \in get_all_legal_moves(Cur) :
       LET canonical_move == get_move_canonical_form(Cur, m)
       IN /\ m.piece # None
          /\ canonical_move.src = None
          /\ canonical_move.capture = "x"
          /\ parse_move(repr(canonical_move)) = canonical_move
          /\ disambiguate_move(Cur, parse_move(repr(canonical_move))).src = m.src
  /\ \E m \in get_all_legal_moves(Cur) :
       LET canonical_move == get_move_canonical_form(Cur, m)
       IN /\ canonical_move.src \in Range(FILES)
          /\ parse_move(repr(canonical_move)) = canonical_move
          /\ disambiguate_move(Cur, parse_move(repr(canonical_move))).src = m.src


\* --------------------------------------------- the queries and their receiver
\* What a query leaves of the Board it is asked of (self). The queries assign
\* to no field of self; the one thing that writes is the make_move that
\* __is_legal runs on a copy (make_move_copy), and what that copy shares
\* with self changes in self as well.

\* self after make_move_copy(move), C being the copy it took
self_after_make_move_copy(B, C, move) == follow(B, C.shared, make_move(C.fields, move))

\* self after __is_legal(src, dest): a pseudo-legal move is tried on a copy
self_after_is_legal(B, src, dest) ==
  IF ~is_pseudo_legal(B, src, dest) THEN B
  ELSE self_after_make_move_copy(
         B, deepcopy(B),
         Move(None, None, IF upper(at(B, src)) = "P" THEN None ELSE upper(at(B, src)),
              square_name(src), square_name(dest), None))

\* self after calls made one after the other, `each` holding what each of
\* them leaves of self when it starts on B: while the calls leave self as it
\* was, the next one starts on B too, so all of them leave B if each does;
\* else self is as one that changes it has left it
self_after_all(B, each) ==
  IF \A after \in each : after = B THEN B ELSE CHOOSE after \in each : after # B

\* self after the calls __is_legal(src, dest) for the pairs `tried`
self_after_each(B, tried) ==
  self_after_all(B, {self_after_is_legal(B, pair[1], pair[2]) : pair \in tried})

\* the calls of __is_legal in legal_moves(src): for the candidate squares of
\* the piece (they are among the squares of the board, and __is_legal does
\* nothing for a square that is not pseudo-legal)
tried_by_legal_moves(B, src) ==
  IF at(B, src) = "." THEN {} ELSE {<<src, dest>> : dest \in Squares}

\* the squares whose legal_moves __disambiguate_source_squares reads: those
\* holding the piece of the move on the rank or file the move names, or
\* anywhere if it names none; none if it names a square
sources_tried(B, move) ==
  LET piece == format_piece(Or(move.piece, "P"), B.active_player)
  IN IF move.src \in SquareNameSet THEN {}
     ELSE {s \in Squares :
             /\ B.board[s] = piece
             /\ move.src \in Range(RANKS) => rank(s) = IndexOf(RANKS, move.src)
             /\ move.src \in Range(FILES) => file(s) = IndexOf(FILES, move.src)}

\* the calls of __is_legal in __disambiguate_source_squares(move)
tried_by_sources(B, move) ==
  UNION {tried_by_legal_moves(B, s) : s \in sources_tried(B, move)}

\* the calls of __is_legal in is_legal_move(move): those of
\* __disambiguate_source_squares and, if that finds one source, the call for
\* it in the last line, which is a new one only for a move that names its
\* source square
tried_by_is_legal_move(B, move) ==
  IF move.castling # None THEN {}
  ELSE IF /\ move.capture # None
          /\ get_piece_owner(at(B, Square(move.dest))) # get_opponent(B.active_player)
          /\ (move.piece # None \/ B.en_passant # Square(move.dest))
  THEN {}
  ELSE tried_by_sources(B, move)
       \cup (IF /\ move.src \in SquareNameSet
                /\ at(B, Square(move.src)) = format_piece(Or(move.piece, "P"), B.active_player)
             THEN {<<Square(move.src), Square(move.dest)>>}
             ELSE {})

\* the calls of __is_legal in disambiguate_move(move)
tried_by_disambiguate_move(B, move) ==
  IF move.castling # None THEN {} ELSE tried_by_sources(B, move)

\* the source specifiers the loop of get_move_canonical_form goes through,
\* in order: (None, src_file, src_rank, src_addr), None skipped for a pawn
\* capture
specifiers(maximal_form) ==
  (IF pawn_capture(maximal_form) THEN <<>> ELSE <<None>>)
    \o <<chars(maximal_form.src)[1], chars(maximal_form.src)[2], maximal_form.src>>

\* the calls of __is_legal in the loop of get_move_canonical_form: those
\* of is_legal_move for the specifiers up to the first that is accepted
tried_by_specifiers(B, maximal_form, all, accepted) ==
  UNION {tried_by_is_legal_move(B, with_src(maximal_form, all[i])) :
           i \in {i \in 1..Len(all) : \A j \in accepted : i <= j}}

\* the loop of get_move_canonical_form, which a castling move does not reach
tried_by_loop(B, maximal_form) ==
  IF maximal_form.castling # None \/ maximal_form.src = None THEN {}
  ELSE tried_by_specifiers(
         B, maximal_form, specifiers(maximal_form),
         {i \in 1..4 : /\ i <= Len(specifiers(maximal_form))
                       /\ is_legal_move(B, with_src(maximal_form,
                                                    specifiers(maximal_form)[i]))})

\* the calls of __is_legal in get_move_canonical_form(move), for a move with
\* a source: those of disambiguate_move and those of is_legal_move for the
\* specifiers up to the first it accepts
tried_by_get_move_canonical_form(B, move) ==
  tried_by_disambiguate_move(B, move) \cup tried_by_loop(B, disambiguate_move(B, move))

\* the calls of __is_legal in get_all_legal_moves(): legal_moves of every
\* square that holds a piece of the active player (the two is_legal_move
\* calls for the castlings make none)
tried_by_get_all_legal_moves(B) ==
  UNION {tried_by_legal_moves(B, i) :
           i \in {i \in Squares : get_piece_owner(B.board[i]) = B.active_player}}

\* the calls of __is_legal in is_mated(): get_all_legal_moves runs if the
\* player is in check
tried_by_is_mated(B) ==
  IF is_in_check(B, B.active_player) THEN tried_by_get_all_legal_moves(B) ELSE {}

\* the methods that answer a question about the Board
Queries == {"is_legal_move", "legal_moves", "get_all_legal_moves", "is_in_check",
            "is_mated", "disambiguate_move", "get_move_canonical_form", "fen"}

\* a call of a query, by the method and its argument
Call(method, argument) == [of |-> method, argument |-> argument]

\* the move of the piece on pair[1] to pair[2], its source given as `source`
MoveOf(B, pair, source) ==
  Move(None, None, IF upper(B.board[pair[1]]) = "P" THEN None ELSE upper(B.board[pair[1]]),
       source, square_name(pair[2]), None)

\* the calls of the queries made: each method on the Board, legal_moves for
\* every square, and the methods that take a move for the pseudo-legal moves
\* of the pieces of the active player, named with their source square and,
\* for is_legal_move, with no source as well
CallsAbout(B, pairs) ==
  {Call(method, <<>>) : method \in {"is_in_check", "is_mated", "get_all_legal_moves", "fen"}}
  \cup {Call("legal_moves", src) : src \in Squares}
  \cup {Call("is_legal_move", MoveOf(B, pair, None)) : pair \in pairs}
  \cup {Call(method, MoveOf(B, pair, square_name(pair[1]))) :
          method \in {"is_legal_move", "disambiguate_move", "get_move_canonical_form"},
          pair \in pairs}

Calls(B) ==
  CallsAbout(B, {pair \in Squares \X Squares :
                   /\ get_piece_owner(B.board[pair[1]]) = B.active_player
                   /\ is_pseudo_legal(B, pair[1], pair[2])})

\* the calls of __is_legal a call of a query makes (is_in_check and fen
\* make none)
tried_by(B, call) ==
  CASE call.of = "legal_moves" -> tried_by_legal_moves(B, call.argument)
    [] call.of = "get_all_legal_moves" -> tried_by_get_all_legal_moves(B)
    [] call.of = "is_mated" -> tried_by_is_mated(B)
    [] call.of = "is_legal_move" -> tried_by_is_legal_move(B, call.argument)
    [] call.of = "disambiguate_move" -> tried_by_disambiguate_move(B, call.argument)
    [] call.of = "get_move_canonical_form" -> tried_by_get_move_canonical_form(B, call.argument)
    [] OTHER -> {}

\* one call of a query on the Board under play, and what it leaves of the Board
Ask ==
  /\ returned = NoCall
  /\ \E call \in Calls(Cur) :
        /\ Becomes(self_after_each(Cur, tried_by(Cur, call)))
        /\ returned' = call
  /\ UNCHANGED <<last_move, ply, new_board, exported>>

\* the Boards the queries are asked of: Board(StartPositions[i])
QueryInit == Init

QuerySpec == QueryInit /\ [][Ask]_vars

\* a step that calls a query leaves the Board, all six fields, as it was
C29_QueryStep ==
  returned'.of \in Queries /\ returned.of = "" =>
     /\ Cur' = Cur
     /\ board' = board
     /\ active_player' = active_player
     /\ en_passant' = en_passant
     /\ available_castlings' = available_castlings
     /\ fifty_move_clock' = fifty_move_clock
     /\ move_number' = move_number

\* C29: is_legal_move, legal_moves, get_all_legal_moves, is_in_check,
\* is_mated, disambiguate_move, get_move_canonical_form and fen leave the
\* receiver's piece array, active player, en passant target, castling
\* rights and both counters exactly as they were; every simulation runs on a
\* deep copy that is discarded.
C29_QueriesLeaveReceiver == [][C29_QueryStep]_vars

\* get_move_canonical_form has been asked about a move of a position with a
\* castling right, an en passant target or a clock that has run, and has
\* tried moves on copies: the Board is as it was constructed
C29_Witness ==
  /\ returned.of = "get_move_canonical_form"
  /\ \E pair \in tried_by(Cur, returned) : is_pseudo_legal(Cur, pair[1], pair[2])
  /\ \E i \in 1..Len(StartPositions) : Cur = Board(StartPositions[i])
  /\ \/ en_passant # NoSquare
     \/ \E side \in DOMAIN available_castlings : available_castlings[side] # None


\* ------------------------------------------------- rooks and their rights
\* The standard starting position, the position after 1. b3 g6 2. Bb2 a6
\* (the white bishop bears on the rook of h8), and a position with the same
\* threat and the squares between king and rook empty
RookPositions ==
  { \* rnbqkbnr/pppppppp/8/8/8/8/PPPPPPPP/RNBQKBNR w KQkq - 0 1
    <<"r","n","b","q","k","b","n","r","/","p","p","p","p","p","p","p","p","/","8","/","8","/","8","/","8","/","P","P","P","P","P","P","P","P","/","R","N","B","Q","K","B","N","R"," ","w"," ","K","Q","k","q"," ","-"," ","0"," ","1">>,
    \* rnbqkbnr/1ppppp1p/p5p1/8/8/1P6/PBPPPPPP/RN1QKBNR w KQkq - 0 3
    <<"r","n","b","q","k","b","n","r","/","1","p","p","p","p","p","1","p","/","p","5","p","1","/","8","/","8","/","1","P","6","/","P","B","P","P","P","P","P","P","/","R","N","1","Q","K","B","N","R"," ","w"," ","K","Q","k","q"," ","-"," ","0"," ","3">>,
    \* 4k2r/8/8/8/8/8/1B6/4K3 w k - 0 1
    <<"4","k","2","r","/","8","/","8","/","8","/","8","/","8","/","1","B","6","/","4","K","3"," ","w"," ","k"," ","-"," ","0"," ","1">> }

RookInit ==
  \E s \in RookPositions :
     /\ ~Board_of_string_raises(s)
     /\ LET B == Board_of_string(s)
        IN /\ board = B.board
           /\ active_player = B.active_player
           /\ en_passant = B.en_passant
           /\ available_castlings = B.available_castlings
           /\ fifty_move_clock = B.fifty_move_clock
           /\ move_number = B.move_number
     /\ last_move = NoMove
     /\ ply = 0
     /\ new_board = NoCopy
     /\ exported = NoExport
     /\ returned = NoCall

RookSpec == RookInit /\ [][Next]_vars

\* every castling right that is set has the king of its colour on the e-file
\* of its back rank and a rook of its colour on the tracked rook square
RightsHavePieces ==
  \A side \in DOMAIN available_castlings :
     available_castlings[side] # None =>
        LET player == get_piece_owner(side)
        IN /\ board[SquareFR(4, HomeRank(player))] = format_piece("K", player)
           /\ board[SquareFR(IndexOf(FILES, lower(available_castlings[side])),
                             HomeRank(player))] = format_piece("R", player)

\* how many squares of b hold the piece
PieceCount(b, piece) == Cardinality({s \in Squares : b[s] = piece})

\* a make_move step keeps the pieces of the castling rights in place; a
\* castling is applied with a rook of the mover on the tracked rook square,
\* and leaves as many pieces of every kind as there were
C30_RightsStep ==
  /\ RightsHavePieces => RightsHavePieces'
  /\ (ply' = ply + 1 /\ last_move'.castling # None) =>
        /\ board[tracked_rook_square(Cur, castling_side(Cur, last_move'))]
             = format_piece("R", active_player)
        /\ \A piece \in {board[s] : s \in Squares} \cup {board'[s] : s \in Squares} :
              piece # "." => PieceCount(board', piece) = PieceCount(board, piece)

\* C30: in every position reached from the standard starting position by
\* legal moves, if a castling right is set for a colour and side then that
\* colour's king stands on its e-file home square and a rook of that colour
\* stands on the tracked rook square (a or h file of its back rank);
\* consequently castling is never legal, and never applied, when the rook
\* square is empty or holds an enemy piece, and castling never adds a piece
\* to the board. (The standard starting position has the pieces of its four
\* rights in place; the property is that make_move keeps them so.)
C30_CastlingRightsHavePieces == [][C30_RightsStep]_vars


\* --------------------------------------------------- rights only shrink
\* a step sets no castling right that was cleared
C31_RightsStep ==
  \A side \in DOMAIN available_castlings :
     available_castlings[side] = None => available_castlings'[side] = None

\* C31: castling rights only ever shrink: over any sequence of make_move
\* calls on one board, a castling right that is cleared in some position is
\* cleared in every later position (rights are set only by the constructor).
C31_RightsOnlyShrink == [][C31_RightsStep]_vars

\* two make_move calls after Board('4k3/8/8/8/8/8/8/R3K2R w KQ - 0 1'): the
\* rook of a1 has left its square and both white rooks are on the board, the
\* queenside right is cleared and stays so, the kingside right is still set
C31_Witness ==
  /\ ply = 2
  /\ available_castlings["Q"] = None
  /\ available_castlings["K"] # None
  /\ board[Square("a1")] # "R"
  /\ board[Square("h1")] = "R"
  /\ PieceCount(board, "R") = 2


\* ------------------------------------------- the two views of legality
\* the non-castling moves asked of is_legal_move in position B: each names
\* a piece of the active player by its letter (none for a pawn) and a square
\* that piece moves to by __is_pseudo_legal, with the source left out or
\* given as the square, the file or the rank of the piece, with and without
\* the capture marker.  (A move is_legal_move accepts has this form: the one
\* source it resolves to holds the piece the move names, matches the source
\* given, and passes __is_legal to the destination.)
LegalInputs(B) ==
  UNION {{Move(None, capture, IF upper(B.board[s]) = "P" THEN None ELSE upper(B.board[s]),
               src, square_name(dest), None) :
            capture \in CaptureInputs,
            src \in {None, square_name(s), FILES[file(s) + 1], RANKS[rank(s) + 1]},
            dest \in {d \in Squares : is_pseudo_legal(B, s, d)}} :
         s \in {s \in Squares : get_piece_owner(B.board[s]) = B.active_player}}

\* the moves among those given that is_legal_move accepts
accepted_by_is_legal_move(B, moves) == {move \in moves : is_legal_move(B, move)}

\* the (source, destination) pair a move resolves to: the one source of
\* __disambiguate_source_squares and the destination the move names
resolved_pair(B, move) ==
  <<first_source(disambiguate_source_squares(B, move)), move.dest>>

\* the (source, destination) pairs of the non-castling moves among those given
pairs_of(moves) == {<<m.src, m.dest>> : m \in {m \in moves : m.castling = None}}

\* every member of all is accepted, and every accepted non-castling move
\* resolves to the source and destination of a member of all
ViewsAgree(B, all, accepted) ==
  /\ all \subseteq accepted
  /\ {resolved_pair(B, move) : move \in {move \in accepted : move.castling = None}}
        \subseteq pairs_of(all)

ViewsAgreeOn(B, all) ==
  ViewsAgree(B, all, accepted_by_is_legal_move(B, all \cup LegalInputs(B)))

\* C32: every member of get_all_legal_moves() is accepted by is_legal_move
\* in the same position, and every non-castling move accepted by
\* is_legal_move resolves to a (source, destination) pair that is the source
\* and destination of some member of get_all_legal_moves(); the two public
\* views of legality never disagree.
C32_LegalityViewsAgree == ViewsAgreeOn(Cur, get_all_legal_moves(Cur))


\* after a move, is_legal_move accepts a capture written with its marker
\* and the file or the rank of its piece for a source, a move that is no
\* member of get_all_legal_moves(), and the position has members
C32_Witness ==
  /\ ply > 0
  /\ get_all_legal_moves(Cur) # {}
  /\ \E move \in LegalInputs(Cur) :
        /\ move.capture = "x"
        /\ move.src # None
        /\ move.src \notin SquareNameSet
        /\ is_legal_move(Cur, move)

=============================================================================
